---- MODULE Spec2Model ----
(***************************************************************************)
(* A verification model of the placement driver's scheduling core          *)
(* (tsthght/pd): the timestamp oracle (server/tso/tso.go), the operator    *)
(* controller, the region index (server/core) and the hot-region scheduler *)
(* (server/schedulers/hot_region.go).                                      *)
(*                                                                         *)
(* Each component has its own variables, its own actions and its own       *)
(* specifications; the variables of the other components stay at their     *)
(* constructed value.                                                      *)
(*                                                                         *)
(* Time is counted in ticks; rates are small naturals; ratios are kept in  *)
(* percent and compared by cross-multiplication, so nothing is rounded.    *)
(***************************************************************************)
EXTENDS Integers, Sequences, FiniteSets, TLC

VARIABLES
    \* ---- TimestampOracle (server/tso/tso.go) ----
    ts,             \* t.ts: the atomicObject, [init, physical, logical]
    lastSavedTime,  \* t.lastSavedTime
    lease,          \* t.lease: "nil", "valid" or "expired"
    saveInterval,   \* t.saveInterval
    etcdTS,         \* the value stored under <rootPath>/timestamp in etcd
    etcdLeader,     \* whether <rootPath>/leader in etcd equals t.member
    synced,         \* a SyncTimestamp has succeeded on this oracle
    tsoLast,        \* what the last call observed and did
    \* ---- hot-region scheduler (server/schedulers/hot_region.go) ----
    regionInfo,     \* cluster: region -> [stores, leader, byte, key, hotDegree, healthy]
    storeInfo,      \* cluster: store -> the attributes the filters read
    storeRate,      \* cluster.GetStoresStats(): store -> [byte, key]
    ops,            \* the operators the scheduler has built; the controller moves their status
    pendings,       \* h.pendings: resource type -> set of pending influences (by operator)
    regionPendings, \* h.regionPendings: region -> [has, mp, tl]
    hotNow,         \* time.Now()
    hotLast,        \* the last step and the solution it ended with; h.pendingSums
                    \* and h.stLoadInfos are rebuilt by every call before they are
                    \* read, and are values of the call rather than variables
    hotCall,        \* the arguments of the last Schedule call, in the
                    \* specification that records them
    \* ---- operator controller ----
    opcOps,         \* every operator handed to the controller, by id
    opcMap,         \* region -> id of its current operator, or NoOperator
    opcTokens,      \* store -> store-limit tokens still available
    opcRegion,      \* region -> the configuration of its last heartbeat
    opcHistory,     \* number of completed operators recorded
    opcLast,        \* what the last call found and did
    \* ---- RegionsInfo (server/core) ----
    regions,        \* r.regions: region id -> the stored region, or NoRegion
    tree,           \* r.tree: the items of the region tree, [id, startKey, endKey]
    leaders,        \* r.leaders: store -> ids in its leader subtree
    followers,      \* r.followers: store -> ids in its follower subtree
    learners,       \* r.learners: store -> ids in its learner subtree
    pendingPeers,   \* r.pendingPeers: store -> ids in its pending-peer subtree
    regLast,        \* what the last SetRegion found
    regCall,        \* the id of the region of the last SetRegion call, where recorded
    \* ---- the hot scheduler's lock (hotScheduler.RWMutex) ----
    lkWriter,       \* a Schedule call holds h.Lock()
    lkReaders,      \* the accessor calls that hold h.RLock()
    lkPc,           \* where the Schedule call stands
    lkGen,          \* Schedule calls started so far
    lkState,        \* the fields: which call wrote each, and the map pendingSums points to
    lkHeap,         \* the maps allocated: reference -> who wrote its content
    lkAcc,          \* accessor call -> [pc, op, leader, peer, ret]
    lkUnguarded,    \* the functions that touched a field without holding the lock
    \* ---- region scatterer (server/schedule/region_scatterer.go) ----
    scStoreInfo,    \* cluster: store -> the attributes the filters read
    scZone,         \* cluster: store -> its location label, NoLabel without one
    scSelected,     \* ordinaryEngine.selectedPeer.stores[group]
    scCount,        \* ordinaryEngine.selectedPeer.groupDistribution[group]
    scLeaderCount,  \* ordinaryEngine.selectedLeader.groupDistribution[group]
    scScattered,    \* number of regions scattered
    scLast,         \* the last Scatter call: its region and what it did peer by peer
    \* ---- replica checker (server/schedule/checker) ----
    rcStore,        \* cluster: store -> [state, rejectLeader]
    rcRegion,       \* the region: [voters, learners, leader, pending]
    rcOp,           \* the steps of the region's operator that are still to run
    rcLast,         \* the last Check: what it found and the steps run since
    rcChecks,       \* number of Check calls
    \* ---- store filters and the leader schedulers that use them ----
    flStore,        \* cluster: store -> the attributes the filters read
    flRegion,       \* cluster: region -> [peers, leader, pending]
    flCounter,      \* filterCounter: <<action, store, filter type>> -> count
    flLast,         \* the last call: its arguments and its result
    flCalls,        \* number of calls
    \* ---- TimestampOracle, step by step ----
    tcHeap,         \* the atomicObjects allocated: pointer -> [physical, logical]
    tcCur,          \* t.ts: the pointer to the current atomicObject, or NilObject
    tcSaved,        \* t.lastSavedTime and the value under <rootPath>/timestamp
    tcLease,        \* t.lease: "nil", "valid" or "expired"
    tcLeader,       \* the leader loop: where its call stands and the call's locals
    tcUser,         \* the ResetUserTimestamp call in progress
    tcGet,          \* the GetRespTS call in progress
    tcRet,          \* what the last GetRespTS call returned, and the one issued before it
    tcLast,         \* how the last SyncTimestamp, UpdateTimestamp, ResetTimestamp or
                    \* ResetUserTimestamp call ended
    tcSynced,       \* a SyncTimestamp has succeeded since the last ResetTimestamp returned
    \* ---- selectedStores of one engine context, with its groups ----
    ssCheckExist,   \* s.checkExist
    ssStores,       \* s.stores: group -> the stores put since the last reset
    ssGroupDistribution, \* s.groupDistribution: group -> store -> count
    ssLast,         \* the last call, and s.stores before it
    ssCalls         \* number of calls

tsoVars == <<ts, lastSavedTime, lease, saveInterval, etcdTS, etcdLeader, synced, tsoLast>>
hotVars == <<regionInfo, storeInfo, storeRate, ops, pendings, regionPendings,
             hotNow, hotLast, hotCall>>

opcVars == <<opcOps, opcMap, opcTokens, opcRegion, opcHistory, opcLast>>

regVars == <<regions, tree, leaders, followers, learners, pendingPeers, regLast,
             regCall>>

lkVars == <<lkWriter, lkReaders, lkPc, lkGen, lkState, lkHeap, lkAcc, lkUnguarded>>

scVars == <<scStoreInfo, scZone, scSelected, scCount, scLeaderCount, scScattered,
            scLast>>

rcVars == <<rcStore, rcRegion, rcOp, rcLast, rcChecks>>

flVars == <<flStore, flRegion, flCounter, flLast, flCalls>>

tcVars == <<tcHeap, tcCur, tcSaved, tcLease, tcLeader, tcUser, tcGet, tcRet, tcLast,
            tcSynced>>

ssVars == <<ssCheckExist, ssStores, ssGroupDistribution, ssLast, ssCalls>>

vars == <<tsoVars, hotVars, opcVars, regVars, lkVars, scVars, rcVars, flVars, tcVars,
          ssVars>>

\* What the calls of one component leave alone.
tsoFrame == <<hotVars, opcVars, regVars, lkVars, scVars, rcVars, flVars, tcVars, ssVars>>
hotFrame == <<tsoVars, opcVars, regVars, lkVars, scVars, rcVars, flVars, tcVars, ssVars>>
opcFrame == <<tsoVars, hotVars, regVars, lkVars, scVars, rcVars, flVars, tcVars, ssVars>>
regFrame == <<tsoVars, hotVars, opcVars, lkVars, scVars, rcVars, flVars, tcVars, ssVars>>
lkFrame == <<tsoVars, hotVars, opcVars, regVars, scVars, rcVars, flVars, tcVars, ssVars>>
scFrame == <<tsoVars, hotVars, opcVars, regVars, lkVars, rcVars, flVars, tcVars, ssVars>>
rcFrame == <<tsoVars, hotVars, opcVars, regVars, lkVars, scVars, flVars, tcVars, ssVars>>
flFrame == <<tsoVars, hotVars, opcVars, regVars, lkVars, scVars, rcVars, tcVars, ssVars>>
tcFrame == <<tsoVars, hotVars, opcVars, regVars, lkVars, scVars, rcVars, flVars, ssVars>>
ssFrame == <<tsoVars, hotVars, opcVars, regVars, lkVars, scVars, rcVars, flVars, tcVars>>

Min(a, b) == IF a <= b THEN a ELSE b
Max(a, b) == IF a >= b THEN a ELSE b

(***************************************************************************)
(*                         TimestampOracle                                 *)
(***************************************************************************)

\* Bounds of the model.
MaxClock == 7           \* the system clock reads ClockBase..MaxClock
MaxTime == 10           \* no physical or saved time beyond this is explored
MaxSaveInterval == 3    \* saveInterval is drawn from MinSaveInterval..MaxSaveInterval
MaxCount == 2           \* GetRespTS is asked for 0..MaxCount timestamps

\* Program constants, in milliseconds (maxLogical is scaled down from 1 << 18).
updateTimestampGuard == 1
maxLogical == 4
\* maxResetTSGap() is a configuration callback; the model fixes its value.
maxResetTSGap == 6

\* typeutil.ZeroTime; every reading of the system clock is later than it by
\* more than maxResetTSGap.
ZeroTime == 0
ClockBase == 7
Clocks == ClockBase..(ClockBase + MaxClock)
TimeLimit == ClockBase + MaxTime

\* The configured save interval is positive (a zero interval is replaced by the
\* default of 3s when the configuration is loaded).
SaveIntervals == 1..MaxSaveInterval

NoTime == -1

NilTS == [init |-> FALSE, physical |-> ZeroTime, logical |-> 0]
NewTS(p) == [init |-> TRUE, physical |-> p, logical |-> 0]

\* typeutil.SubTimeByWallClock
SubTimeByWallClock(after, before) == after - before

TsoNoLast ==
    [op |-> "none", ok |-> TRUE, stored |-> FALSE, saved |-> FALSE,
     saveFailed |-> FALSE, prevPhysical |-> ZeroTime, prevSaved |-> ZeroTime,
     prevEtcd |-> ZeroTime]

\* checkLease
checkLease == lease = "valid"

\* saveTimestamp: the etcd transaction commits only while the leader key still
\* names this member, and may fail on its own; on success the value is put in
\* etcd and then in lastSavedTime.
SaveSucceeds(etcdOK) == etcdOK /\ etcdLeader

\* SyncTimestamp, the choice of next (lines 139-149).
SyncNextNoGuard(now, last) == now
SyncNextBehindOnly(now, last) ==
    IF SubTimeByWallClock(now, last) < 0
    THEN last + updateTimestampGuard
    ELSE now
SyncNext(now, last) ==
    IF SubTimeByWallClock(now, last) < updateTimestampGuard
    THEN last + updateTimestampGuard
    ELSE now

\* SyncTimestamp(lease): loads the saved time, saves next + saveInterval and
\* installs next as the in-memory timestamp.
SyncTimestamp(now, loadOK, etcdOK) ==
    LET last == etcdTS
        next == SyncNext(now, last)
        save == next + saveInterval
    IN  /\ save <= TimeLimit
        /\ lease' = "valid"
        /\ IF ~loadOK
           THEN /\ UNCHANGED <<ts, lastSavedTime, etcdTS, synced>>
                /\ tsoLast' = [TsoNoLast EXCEPT !.op = "sync", !.ok = FALSE]
           ELSE IF ~SaveSucceeds(etcdOK)
           THEN /\ UNCHANGED <<ts, lastSavedTime, etcdTS, synced>>
                /\ tsoLast' = [TsoNoLast EXCEPT !.op = "sync", !.ok = FALSE,
                                 !.saveFailed = TRUE,
                                 !.prevSaved = lastSavedTime, !.prevEtcd = etcdTS]
           ELSE /\ etcdTS' = save
                /\ lastSavedTime' = save
                /\ ts' = NewTS(next)
                /\ synced' = TRUE
                /\ tsoLast' = [TsoNoLast EXCEPT !.op = "sync", !.stored = TRUE,
                                 !.saved = TRUE, !.prevPhysical = ts.physical,
                                 !.prevSaved = lastSavedTime, !.prevEtcd = etcdTS]
        /\ UNCHANGED <<saveInterval, etcdLeader>>
        /\ UNCHANGED tsoFrame

\* UpdateTimestamp, the choice of next (lines 223-247); NoTime when the call
\* keeps the previous physical time.
UpdateNextNoGuard(prev, now) ==
    IF SubTimeByWallClock(now, prev.physical) >= 0 THEN now
    ELSE IF prev.logical > maxLogical \div 2 THEN prev.physical + 1
    ELSE NoTime
UpdateNext(prev, now) ==
    LET jetLag == SubTimeByWallClock(now, prev.physical)
    IN  IF jetLag > updateTimestampGuard THEN now
        ELSE IF prev.logical > maxLogical \div 2 THEN prev.physical + 1
        ELSE NoTime

\* UpdateTimestamp, whether the time window must be saved first (line 251).
NeedSaveLate(saved, next) == SubTimeByWallClock(saved, next) < 0
NeedSave(saved, next) == SubTimeByWallClock(saved, next) <= updateTimestampGuard

\* UpdateTimestamp, run by the leader loop between a successful SyncTimestamp
\* and ResetTimestamp.
UpdateTimestamp(now, etcdOK) ==
    /\ ts.init /\ ts.physical # ZeroTime
    /\ LET prev == ts
           next == UpdateNext(prev, now)
           save == next + saveInterval
       IN  IF next = NoTime
           THEN /\ UNCHANGED <<ts, lastSavedTime, etcdTS>>
                /\ tsoLast' = [TsoNoLast EXCEPT !.op = "update"]
           ELSE /\ save <= TimeLimit
                /\ IF NeedSave(lastSavedTime, next)
                   THEN IF SaveSucceeds(etcdOK)
                        THEN /\ etcdTS' = save
                             /\ lastSavedTime' = save
                             /\ ts' = NewTS(next)
                             /\ tsoLast' = [TsoNoLast EXCEPT !.op = "update",
                                   !.stored = TRUE, !.saved = TRUE,
                                   !.prevPhysical = prev.physical,
                                   !.prevSaved = lastSavedTime, !.prevEtcd = etcdTS]
                        ELSE /\ UNCHANGED <<ts, lastSavedTime, etcdTS>>
                             /\ tsoLast' = [TsoNoLast EXCEPT !.op = "update",
                                   !.ok = FALSE, !.saveFailed = TRUE,
                                   !.prevSaved = lastSavedTime, !.prevEtcd = etcdTS]
                   ELSE /\ ts' = NewTS(next)
                        /\ UNCHANGED <<lastSavedTime, etcdTS>>
                        /\ tsoLast' = [TsoNoLast EXCEPT !.op = "update",
                              !.stored = TRUE, !.prevPhysical = prev.physical]
    /\ UNCHANGED <<lease, saveInterval, etcdLeader, synced>>
    /\ UNCHANGED tsoFrame

\* ResetUserTimestamp(tso): physical is the physical part of tso.
ResetUserTimestamp(physical, etcdOK) ==
    /\ ts.init
    /\ LET next == physical + 1
           prev == ts
           save == next + saveInterval
       IN  IF ~checkLease
              \/ SubTimeByWallClock(next, prev.physical) <= 3 * updateTimestampGuard
              \/ SubTimeByWallClock(next, prev.physical) >= maxResetTSGap
           THEN /\ UNCHANGED <<ts, lastSavedTime, etcdTS>>
                /\ tsoLast' = [TsoNoLast EXCEPT !.op = "resetUser", !.ok = FALSE]
           ELSE /\ save <= TimeLimit
                /\ IF SaveSucceeds(etcdOK)
                   THEN /\ etcdTS' = save
                        /\ lastSavedTime' = save
                        \* the compare-and-swap against prev: no other call runs
                        \* between the load and the swap here
                        /\ ts' = NewTS(next)
                        /\ tsoLast' = [TsoNoLast EXCEPT !.op = "resetUser",
                              !.stored = TRUE, !.saved = TRUE,
                              !.prevPhysical = prev.physical,
                              !.prevSaved = lastSavedTime, !.prevEtcd = etcdTS]
                   ELSE /\ UNCHANGED <<ts, lastSavedTime, etcdTS>>
                        /\ tsoLast' = [TsoNoLast EXCEPT !.op = "resetUser",
                              !.ok = FALSE, !.saveFailed = TRUE,
                              !.prevSaved = lastSavedTime, !.prevEtcd = etcdTS]
    /\ UNCHANGED <<lease, saveInterval, etcdLeader, synced>>
    /\ UNCHANGED tsoFrame

\* ResetTimestamp: run when the leader loop of a term ends.
ResetTimestamp ==
    /\ ts' = NewTS(ZeroTime)
    /\ lease' = "nil"
    /\ tsoLast' = [TsoNoLast EXCEPT !.op = "reset"]
    /\ UNCHANGED <<lastSavedTime, saveInterval, etcdTS, etcdLeader, synced>>
    /\ UNCHANGED tsoFrame

\* One pass of GetRespTS's loop for a request of count timestamps.
GetRespTS(count) ==
    /\ count > 0
    /\ ts.init /\ ts.physical # ZeroTime
    /\ ts.logical + count <= maxLogical + MaxCount
    /\ ts' = [ts EXCEPT !.logical = @ + count]
    /\ tsoLast' = [TsoNoLast EXCEPT !.op = "get",
                     !.ok = (ts.logical + count < maxLogical) /\ checkLease]
    /\ UNCHANGED <<lastSavedTime, lease, saveInterval, etcdTS, etcdLeader, synced>>
    /\ UNCHANGED tsoFrame

\* The leader lease runs out.
LeaseExpires ==
    /\ lease = "valid"
    /\ lease' = "expired"
    /\ tsoLast' = [TsoNoLast EXCEPT !.op = "expire"]
    /\ UNCHANGED <<ts, lastSavedTime, saveInterval, etcdTS, etcdLeader, synced>>
    /\ UNCHANGED tsoFrame

\* The leader key in etcd is lost; the lease of this member has run out by then.
LoseLeadership ==
    /\ etcdLeader /\ lease # "valid"
    /\ etcdLeader' = FALSE
    /\ tsoLast' = [TsoNoLast EXCEPT !.op = "lose"]
    /\ UNCHANGED <<ts, lastSavedTime, lease, saveInterval, etcdTS, synced>>
    /\ UNCHANGED tsoFrame

\* Another member leads and moves the saved time forward.
PeerLeaderSave(t) ==
    /\ ~etcdLeader
    /\ t > etcdTS /\ t <= TimeLimit - MaxSaveInterval - 1
    /\ etcdTS' = t
    /\ tsoLast' = [TsoNoLast EXCEPT !.op = "peer"]
    /\ UNCHANGED <<ts, lastSavedTime, lease, saveInterval, etcdLeader, synced>>
    /\ UNCHANGED tsoFrame

\* This member wins the campaign; the previous term has run ResetTimestamp.
Campaign ==
    /\ ~etcdLeader
    /\ lease = "nil"
    /\ ~ts.init \/ ts.physical = ZeroTime
    /\ etcdLeader' = TRUE
    /\ tsoLast' = [TsoNoLast EXCEPT !.op = "campaign"]
    /\ UNCHANGED <<ts, lastSavedTime, lease, saveInterval, etcdTS, synced>>
    /\ UNCHANGED tsoFrame

\* The oracle as NewTimestampOracle leaves it, before the first campaign; etcd
\* may hold the time saved by an earlier term.
TsoStart ==
    /\ ts = NilTS
    /\ lastSavedTime = ZeroTime
    /\ lease = "nil"
    /\ saveInterval \in SaveIntervals
    /\ etcdTS \in {ZeroTime, ClockBase, ClockBase + 2}
    /\ etcdLeader = FALSE
    /\ synced = FALSE
    /\ tsoLast = TsoNoLast

\* The oracle of a server whose timestamp service is not exercised.
TsoIdle ==
    /\ ts = NilTS
    /\ lastSavedTime = ZeroTime
    /\ lease = "nil"
    /\ saveInterval = MaxSaveInterval
    /\ etcdTS = ZeroTime
    /\ etcdLeader = FALSE
    /\ synced = FALSE
    /\ tsoLast = TsoNoLast

TsoNext ==
    \/ \E now \in Clocks, loadOK \in BOOLEAN, etcdOK \in BOOLEAN :
          SyncTimestamp(now, loadOK, etcdOK)
    \/ \E now \in Clocks, etcdOK \in BOOLEAN : UpdateTimestamp(now, etcdOK)
    \/ \E physical \in Clocks, etcdOK \in BOOLEAN : ResetUserTimestamp(physical, etcdOK)
    \/ ResetTimestamp
    \/ \E count \in 0..MaxCount : GetRespTS(count)
    \/ LeaseExpires
    \/ LoseLeadership
    \/ \E t \in Clocks : PeerLeaderSave(t)
    \/ Campaign

(***************************************************************************)
(*                        Hot-region scheduler                             *)
(***************************************************************************)

\* Bounds of the model.
NumStores == 3          \* the cluster has stores 1..NumStores
NumRegions == 2         \* and regions 1..NumRegions
MaxOps == 2             \* the scheduler builds at most MaxOps operators
MaxNow == 3             \* time.Now() reads 0..MaxNow

Stores == 1..NumStores
Regions == 1..NumRegions

\* Scheduler and cluster configuration read through getters; the model fixes
\* their values. Ratios are in percent, durations in clock ticks.
MaxZombieDuration == 2
SrcTolerancePct == 105
DstTolerancePct == 105
GreatDecPct == 95
MinorGreatDecPct == 99
MinHotByteRate == 1
MinHotKeyRate == 2
MaxPeerNumber == 1
HotRegionCacheHitsThreshold == 1
MaxReplicas == 2

\* Rates a store or a hot peer reports.
LowRate == 1
HotRate == 2
MidRate == 12
HighRate == 20

\* rwType, opType and resourceType.
rwTypes == {"write", "read"}
opTypes == {"movePeer", "transferLeader"}
resourceTypes == {"writePeer", "writeLeader", "readLeader"}

toResourceType(rwTy, opTy) ==
    IF rwTy = "write"
    THEN (IF opTy = "movePeer" THEN "writePeer" ELSE "writeLeader")
    ELSE "readLeader"

\* Operator statuses (operator.OpStatus); the end statuses are those of
\* operator.IsEndStatus.
EndStatuses == {"SUCCESS", "CANCELED", "REPLACED", "EXPIRED", "TIMEOUT"}
IsEnd(op) == op.status \in EndStatuses

RECURSIVE SumOver(_, _)
SumOver(S, f) ==
    IF S = {} THEN 0
    ELSE LET x == CHOOSE y \in S : TRUE IN f[x] + SumOver(S \ {x}, f)

\* A weight that stays full until MaxZombieDuration after SUCCESS.
calcPendingWeightStep(op, now) ==
    IF op.status \in {"EXPIRED", "TIMEOUT"} THEN 0
    ELSE IF ~IsEnd(op) THEN MaxZombieDuration
    ELSE IF op.status = "SUCCESS"
    THEN (IF now - op.endTime >= MaxZombieDuration THEN 0 ELSE MaxZombieDuration)
    ELSE 0

\* calcPendingWeight, times MaxZombieDuration (so that the weight stays an
\* integer): 0 once expired or timed out, the full weight while the operator
\* runs, after SUCCESS the share of MaxZombieDuration not yet elapsed since
\* the operator reached SUCCESS, 0 for every other end status.
calcPendingWeight(op, now) ==
    IF op.status \in {"EXPIRED", "TIMEOUT"} THEN 0
    ELSE IF ~IsEnd(op) THEN MaxZombieDuration
    ELSE IF op.status = "SUCCESS"
    THEN LET zombieDur == now - op.endTime
         IN  IF zombieDur >= MaxZombieDuration THEN 0
             ELSE MaxZombieDuration - zombieDur
    ELSE 0

\* summaryPendingInfluence(pendings, f), the pending set it leaves: influences
\* of weight 0 are deleted.
pendingsKept(pend, opsNow, now) ==
    {i \in pend : calcPendingWeight(opsNow[i], now) # 0}

\* summaryPendingInfluence(pendings, f), the sums it returns: every influence
\* is added to its destination and subtracted from its source, by its weight.
summaryPendingInfluence(pend, opsNow, now) ==
    [s \in Stores |->
        LET w == [i \in pend |-> calcPendingWeight(opsNow[i], now)]
            sgn == [i \in pend |-> IF opsNow[i].to = s THEN 1
                                   ELSE IF opsNow[i].from = s THEN -1 ELSE 0]
        IN  [byte |-> SumOver(pend, [i \in pend |-> sgn[i] * w[i] * opsNow[i].byte]),
             key |-> SumOver(pend, [i \in pend |-> sgn[i] * w[i] * opsNow[i].key]),
             count |-> SumOver(pend, [i \in pend |-> sgn[i] * w[i]])]]

\* gcRegionPendings: a slot is cleared when its operator has ended and now is
\* after the operator's create time plus MaxZombieDuration; an entry whose two
\* slots are empty is deleted.
NoOp == 0
NoPending == [has |-> FALSE, mp |-> NoOp, tl |-> NoOp]
gcSlot(slot, opsNow, now) ==
    IF slot # NoOp /\ IsEnd(opsNow[slot])
       /\ now > opsNow[slot].createTime + MaxZombieDuration
    THEN NoOp ELSE slot
gcRegionPendings(rp, opsNow, now) ==
    [r \in Regions |->
        IF ~rp[r].has THEN rp[r]
        ELSE LET mp == gcSlot(rp[r].mp, opsNow, now)
                 tl == gcSlot(rp[r].tl, opsNow, now)
             IN  IF mp = NoOp /\ tl = NoOp THEN NoPending
                 ELSE [has |-> TRUE, mp |-> mp, tl |-> tl]]

\* The hot peers the statistics hold for a store: for writes every peer of a
\* region with flow, for reads its leader.
storeHotPeers(rwTy, s, regs) ==
    {r \in Regions : s \in regs[r].stores /\ (rwTy = "write" \/ regs[r].leader = s)}

\* filterHotPeers(kind, minHotDegree, threshold, peers, mixed): with the mixed
\* filter type no peer is dropped for its rates.
filterHotPeers(kind, minHotDegree, peers, s, regs) ==
    {r \in peers : ~(kind = "leader" /\ regs[r].leader # s)
                   /\ ~(regs[r].hotDegree < minHotDegree)}

\* storeLoad.ToLoadPred and the storeLoadPred accessors min and max.
ToLoadPred(load, infl) ==
    [cur |-> load,
     fut |-> [byte |-> load.byte + infl.byte, key |-> load.key + infl.key,
              count |-> load.count + infl.count]]
minLoadPred(lp) ==
    [byte |-> Min(lp.cur.byte, lp.fut.byte), key |-> Min(lp.cur.key, lp.fut.key),
     count |-> Min(lp.cur.count, lp.fut.count)]
maxLoadPred(lp) ==
    [byte |-> Max(lp.cur.byte, lp.fut.byte), key |-> Max(lp.cur.key, lp.fut.key),
     count |-> Max(lp.cur.count, lp.fut.count)]

\* summaryStoresLoad: per store the current load, the load predicted with the
\* pending influence, the hot peers, and the expectation kept as the sum over
\* the stores and their number (ExpByteRate = expByte / storeLen). Loads are
\* in units of 1 / MaxZombieDuration.
summaryStoresLoad(rates, pendingSum, rwTy, kind, regs) ==
    LET hot == [s \in Stores |->
                   filterHotPeers(kind, HotRegionCacheHitsThreshold,
                                  storeHotPeers(rwTy, s, regs), s, regs)]
        leaderOnly == kind = "leader" /\ rwTy = "write"
        byteRate == [s \in Stores |->
                        IF leaderOnly
                        THEN SumOver(hot[s], [r \in Regions |-> regs[r].byte])
                        ELSE rates[s].byte]
        keyRate == [s \in Stores |->
                       IF leaderOnly
                       THEN SumOver(hot[s], [r \in Regions |-> regs[r].key])
                       ELSE rates[s].key]
        allByteSum == SumOver(Stores, byteRate)
        allKeySum == SumOver(Stores, keyRate)
        allCount == SumOver(Stores, [s \in Stores |-> Cardinality(hot[s])])
    IN  [s \in Stores |->
            [pred |-> ToLoadPred([byte |-> MaxZombieDuration * byteRate[s],
                                  key |-> MaxZombieDuration * keyRate[s],
                                  count |-> MaxZombieDuration * Cardinality(hot[s])],
                                 pendingSum[s]),
             hot |-> hot[s],
             expByte |-> MaxZombieDuration * allByteSum,
             expKey |-> MaxZombieDuration * allKeySum,
             expCount |-> MaxZombieDuration * allCount,
             storeLen |-> NumStores]]

\* ---- store filters (server/schedule/filter/filters.go) ----

\* A store as the filters see it.
NormalStore ==
    [state |-> "Up", down |-> FALSE, disconnected |-> FALSE, blocked |-> FALSE,
     busy |-> FALSE, rejectLeader |-> FALSE, pendingOver |-> FALSE,
     addAvail |-> TRUE, removeAvail |-> TRUE, snapOver |-> FALSE,
     specialUse |-> "", lowSpace |-> FALSE]
StoreProfiles ==
    {NormalStore,
     [NormalStore EXCEPT !.state = "Offline"],
     [NormalStore EXCEPT !.state = "Tombstone"],
     [NormalStore EXCEPT !.down = TRUE, !.disconnected = TRUE],
     [NormalStore EXCEPT !.disconnected = TRUE],
     [NormalStore EXCEPT !.blocked = TRUE],
     [NormalStore EXCEPT !.busy = TRUE],
     [NormalStore EXCEPT !.rejectLeader = TRUE],
     [NormalStore EXCEPT !.pendingOver = TRUE],
     [NormalStore EXCEPT !.addAvail = FALSE],
     [NormalStore EXCEPT !.snapOver = TRUE],
     [NormalStore EXCEPT !.specialUse = "hotRegion"],
     [NormalStore EXCEPT !.specialUse = "reserved"]}

\* The location label of a store: the cluster has one location label, zone,
\* with stores 1 and 2 in one zone and the others in a second.
zoneOf(s) == IF s <= 2 THEN 1 ELSE 2

allSpecialUses == {"hotRegion", "reserved"}

\* StoreStateFilter.filterMoveRegion
filterMoveRegion(isSource, st) ==
    /\ ~st.busy
    /\ IF isSource THEN st.removeAvail ELSE st.addAvail
    /\ ~st.snapOver

\* A store-state filter that does not ask the reject-leader label property.
StoreStateFilterTargetNoLabel(f, st) ==
    IF st.state = "Tombstone" \/ st.state = "Offline" \/ st.down THEN FALSE
    ELSE IF f.TransferLeader /\ (st.disconnected \/ st.blocked \/ st.busy)
    THEN FALSE
    ELSE IF f.MoveRegion
    THEN ~st.pendingOver /\ filterMoveRegion(FALSE, st)
    ELSE TRUE

\* StoreStateFilter.Target
StoreStateFilterTarget(f, st) ==
    IF st.state = "Tombstone" \/ st.state = "Offline" \/ st.down THEN FALSE
    ELSE IF f.TransferLeader
            /\ (st.disconnected \/ st.blocked \/ st.busy \/ st.rejectLeader)
    THEN FALSE
    ELSE IF f.MoveRegion
    THEN ~st.pendingOver /\ filterMoveRegion(FALSE, st)
    ELSE TRUE

\* excludedFilter.Target
excludedFilterTarget(targets, s) == s \notin targets

\* healthFilter.Target
healthFilterTarget(st) == ~st.busy /\ ~st.down

\* A special-use filter that lets every special store through once the caller
\* has allowed one use.
specialUseFilterTargetAny(allowUses, st) ==
    allowUses # {} \/ st.specialUse \notin allSpecialUses

\* specialUseFilter.Target: the store carries none of the special uses that
\* the filter was not told to allow.
specialUseFilterTarget(allowUses, st) ==
    st.specialUse \notin (allSpecialUses \ allowUses)

\* core.DistinctScore for the single location label.
DistinctScore(others, s) ==
    Cardinality({o \in others : o # s /\ zoneOf(o) # zoneOf(s)})

\* A distinct-score filter that wants the isolation to grow.
distinctScoreFilterTargetStrict(regionStores, source, s) ==
    LET newStores == regionStores \ {source}
    IN  DistinctScore(newStores, s) > DistinctScore(newStores, source)

\* distinctScoreFilter.Target, for the filter NewDistinctScoreFilter builds
\* from the stores of the region and the source store.
distinctScoreFilterTarget(regionStores, source, s) ==
    LET newStores == regionStores \ {source}
        safeScore == DistinctScore(newStores, source)
    IN  DistinctScore(newStores, s) >= safeScore

\* ---- balanceSolver ----
\* bs is the solver: [rwTy, opTy, load, rp, regs, stores, opsNow, allow], load
\* being stLoadDetail and rp the scheduler's regionPendings.

\* x > pct% of num / den   and   x * pct% < num / den
Exceeds(x, pct, num, den) == x * 100 * den > pct * num
StaysBelow(x, pct, num, den) == x * pct * den < num * 100

\* balanceSolver.filterSrcStores
filterSrcStoresLoose(bs) ==
    {s \in Stores :
        /\ bs.load[s].hot # {}
        /\ \/ Exceeds(minLoadPred(bs.load[s].pred).byte, SrcTolerancePct,
                      bs.load[s].expByte, bs.load[s].storeLen)
           \/ Exceeds(minLoadPred(bs.load[s].pred).key, SrcTolerancePct,
                      bs.load[s].expKey, bs.load[s].storeLen)}
filterSrcStores(bs) ==
    {s \in Stores :
        /\ bs.load[s].hot # {}
        /\ Exceeds(minLoadPred(bs.load[s].pred).byte, SrcTolerancePct,
                   bs.load[s].expByte, bs.load[s].storeLen)
        /\ Exceeds(minLoadPred(bs.load[s].pred).key, SrcTolerancePct,
                   bs.load[s].expKey, bs.load[s].storeLen)}

\* The orders sort.Slice may leave a set of peers in under "rate descending".
RECURSIVE SortedDesc(_, _)
SortedDesc(S, rate) ==
    IF S = {} THEN {<<>>}
    ELSE UNION {{<<x>> \o rest : rest \in SortedDesc(S \ {x}, rate)} :
                   x \in {y \in S : \A z \in S : rate[y] >= rate[z]}}

\* The first peer of a sorted list that is not in the union yet, and the list
\* after it.
RECURSIVE TakeNew(_, _)
TakeNew(sorted, union) ==
    IF sorted = <<>> THEN [peer |-> NoOp, rest |-> <<>>]
    ELSE IF Head(sorted) \notin union
    THEN [peer |-> Head(sorted), rest |-> Tail(sorted)]
    ELSE TakeNew(Tail(sorted), union)

\* balanceSolver.filterHotPeers, the loop that fills the union.
RECURSIVE unionLoop(_, _, _)
unionLoop(byteSort, keySort, union) ==
    IF Cardinality(union) >= MaxPeerNumber THEN union
    ELSE LET b == TakeNew(byteSort, union)
             u1 == IF b.peer = NoOp THEN union ELSE union \cup {b.peer}
             k == TakeNew(keySort, u1)
             u2 == IF k.peer = NoOp THEN u1 ELSE u1 \cup {k.peer}
         IN  unionLoop(b.rest, k.rest, u2)

\* balanceSolver.filterHotPeers: the sets of peers a call may return for the
\* source store src; a peer whose region has an entry in regionPendings is
\* never returned.
bsFilterHotPeers(bs, src) ==
    LET ret == bs.load[src].hot
        appendItem(items) == {r \in items : ~bs.rp[r].has}
    IN  IF Cardinality(ret) <= MaxPeerNumber THEN {appendItem(ret)}
        ELSE {appendItem(unionLoop(b, k, {})) :
                 b \in SortedDesc(ret, [r \in Regions |-> bs.regs[r].byte]),
                 k \in SortedDesc(ret, [r \in Regions |-> bs.regs[r].key])}

\* opt.IsRegionReplicated without placement rules.
IsRegionReplicated(region) == Cardinality(region.stores) = MaxReplicas

\* An availability check that looks at the pending operators only.
isRegionAvailablePendingOnly(bs, r) ==
    IF bs.rp[r].has /\ bs.opTy = "transferLeader" THEN FALSE
    ELSE ~(bs.rp[r].has
           /\ (bs.rp[r].mp # NoOp
               \/ (bs.rp[r].tl # NoOp /\ ~IsEnd(bs.opsNow[bs.rp[r].tl]))))

\* balanceSolver.isRegionAvailable
isRegionAvailable(bs, r) ==
    IF bs.rp[r].has /\ bs.opTy = "transferLeader" THEN FALSE
    ELSE IF bs.rp[r].has
            /\ (bs.rp[r].mp # NoOp
                \/ (bs.rp[r].tl # NoOp /\ ~IsEnd(bs.opsNow[bs.rp[r].tl])))
    THEN FALSE
    ELSE bs.regs[r].healthy /\ IsRegionReplicated(bs.regs[r])

\* balanceSolver.getRegion: whether it returns the region of the peer.
getRegion(bs, src, r) ==
    /\ isRegionAvailable(bs, r)
    /\ IF bs.opTy = "movePeer" THEN src \in bs.regs[r].stores
       ELSE bs.regs[r].leader = src

\* filter.Target over the filters filterDstStores builds.
dstFiltersPass(bs, src, r, s) ==
    IF bs.opTy = "movePeer"
    THEN /\ StoreStateFilterTarget([TransferLeader |-> FALSE, MoveRegion |-> TRUE],
                                   bs.stores[s])
         /\ excludedFilterTarget(bs.regs[r].stores, s)
         /\ healthFilterTarget(bs.stores[s])
         /\ specialUseFilterTarget({"hotRegion"}, bs.stores[s])
         /\ distinctScoreFilterTarget(bs.regs[r].stores, src, s)
    ELSE /\ StoreStateFilterTarget([TransferLeader |-> TRUE, MoveRegion |-> FALSE],
                                   bs.stores[s])
         /\ healthFilterTarget(bs.stores[s])
         /\ specialUseFilterTarget({"hotRegion"}, bs.stores[s])

\* filterDstStores, the candidates: every store for a peer move, the stores
\* of the followers for a leader transfer.
dstCandidates(bs, r) ==
    IF bs.opTy = "movePeer" THEN Stores
    ELSE bs.regs[r].stores \ {bs.regs[r].leader}

\* balanceSolver.pickDstStores
pickDstStoresNoLoad(bs, src, r, candidates) ==
    {s \in candidates : dstFiltersPass(bs, src, r, s)}
pickDstStores(bs, src, r, candidates) ==
    {s \in candidates :
        /\ dstFiltersPass(bs, src, r, s)
        /\ StaysBelow(maxLoadPred(bs.load[s].pred).byte, DstTolerancePct,
                      bs.load[s].expByte, bs.load[s].storeLen)
        /\ StaysBelow(maxLoadPred(bs.load[s].pred).key, DstTolerancePct,
                      bs.load[s].expKey, bs.load[s].storeLen)}

\* balanceSolver.filterDstStores
filterDstStores(bs, src, r) == pickDstStores(bs, src, r, dstCandidates(bs, r))

\* A ranking whose second case does not ask for a hot key rate.
calcProgressiveRankAnyKey(bs, src, r, dst) ==
    LET srcLd == minLoadPred(bs.load[src].pred)
        dstLd == maxLoadPred(bs.load[dst].pred)
        peerByte == MaxZombieDuration * bs.regs[r].byte
        peerKey == MaxZombieDuration * bs.regs[r].key
        decRate(a, b) == IF a - b <= 0 THEN MaxZombieDuration ELSE a - b
        keyDec(pct) == (dstLd.key + peerKey) * 100 <= pct * decRate(srcLd.key, peerKey)
        byteDec(pct) == (dstLd.byte + peerByte) * 100 <= pct * decRate(srcLd.byte, peerByte)
        keyHot == bs.regs[r].key >= MinHotKeyRate
        byteHot == bs.regs[r].byte > MinHotByteRate
    IN  IF bs.rwTy = "write" /\ bs.opTy = "transferLeader"
        THEN (IF srcLd.key >= dstLd.key + peerKey THEN -1 ELSE 0)
        ELSE IF byteHot /\ byteDec(GreatDecPct) /\ keyHot /\ keyDec(GreatDecPct) THEN -3
        ELSE IF byteDec(MinorGreatDecPct) /\ keyDec(GreatDecPct) THEN -2
        ELSE IF byteHot /\ byteDec(GreatDecPct) THEN -1
        ELSE 0

\* balanceSolver.calcProgressiveRank
getSrcDecRate(a, b) == IF a - b <= 0 THEN MaxZombieDuration ELSE a - b
calcProgressiveRank(bs, src, r, dst) ==
    LET srcLd == minLoadPred(bs.load[src].pred)
        dstLd == maxLoadPred(bs.load[dst].pred)
        peerByte == MaxZombieDuration * bs.regs[r].byte
        peerKey == MaxZombieDuration * bs.regs[r].key
        \* (dst + peer) / getSrcDecRate(src, peer) <= pct%
        keyDec(pct) == (dstLd.key + peerKey) * 100 <= pct * getSrcDecRate(srcLd.key, peerKey)
        byteDec(pct) == (dstLd.byte + peerByte) * 100 <= pct * getSrcDecRate(srcLd.byte, peerByte)
        keyHot == bs.regs[r].key >= MinHotKeyRate
        byteHot == bs.regs[r].byte > MinHotByteRate
    IN  IF bs.rwTy = "write" /\ bs.opTy = "transferLeader"
        THEN (IF srcLd.key >= dstLd.key + peerKey THEN -1 ELSE 0)
        ELSE IF byteHot /\ byteDec(GreatDecPct) /\ keyHot /\ keyDec(GreatDecPct) THEN -3
        ELSE IF byteDec(MinorGreatDecPct) /\ keyHot /\ keyDec(GreatDecPct) THEN -2
        ELSE IF byteHot /\ byteDec(GreatDecPct) THEN -1
        ELSE 0

\* balanceSolver.buildOperators: whether an operator is built (a leader
\* transfer needs a voter on the destination; every peer here is a voter).
buildOperators(bs, r, dst) ==
    IF bs.opTy = "transferLeader" THEN dst \in bs.regs[r].stores ELSE TRUE

\* A solution of the solver; NoSol when solve returns no operator.
NoSol == [opTy |-> "none", src |-> 0, region |-> 0, dst |-> 0, rank |-> 0]

\* balanceSolver.allowBalance
allowBalance(bs) == bs.allow

\* The triples solve evaluates, with their rank and whether buildOperators
\* returns an operator for them, hp being the hot peers filterHotPeers
\* returned for each source store.
solveEvaluated(bs, hp) ==
    UNION {UNION {{[sol |-> [opTy |-> bs.opTy, src |-> s, region |-> r, dst |-> d,
                             rank |-> calcProgressiveRank(bs, s, r, d)],
                    built |-> buildOperators(bs, r, d)] :
                      d \in filterDstStores(bs, s, r)} :
                  r \in {q \in hp[s] : getRegion(bs, s, q)}} :
           s \in filterSrcStores(bs)}

\* A comparison that prefers the solution evaluated last.
betterThanNewest(cur, old) == {TRUE}

\* balanceSolver.betterThan: the answers it may give. The rank decides;
\* between equal ranks the loads of the stores and the rates of the peers
\* decide, which may go either way.
betterThan(cur, old) ==
    IF old = NoSol THEN {TRUE}
    ELSE IF cur.rank < old.rank THEN {TRUE}
    ELSE IF cur.rank > old.rank THEN {FALSE}
    ELSE BOOLEAN

\* The loops of balanceSolver.solve over the evaluated triples rest, taken
\* in any order, best being the solution kept so far: the solutions the
\* loops may end with.
RECURSIVE solveLoop(_, _)
solveLoop(rest, best) ==
    IF rest = {} THEN {best}
    ELSE UNION {UNION {solveLoop(rest \ {t}, IF better /\ t.built THEN t.sol ELSE best) :
                          better \in IF t.sol.rank < 0 THEN betterThan(t.sol, best)
                                     ELSE {FALSE}} :
                   t \in rest}

\* The solutions of negative rank for which an operator is built, hp being
\* the hot peers filterHotPeers returned for each source store.
solveCandidates(bs, hp) ==
    UNION {UNION {{[opTy |-> bs.opTy, src |-> s, region |-> r, dst |-> d,
                    rank |-> calcProgressiveRank(bs, s, r, d)] :
                      d \in {e \in filterDstStores(bs, s, r) :
                                /\ calcProgressiveRank(bs, s, r, e) < 0
                                /\ buildOperators(bs, r, e)}} :
                  r \in {q \in hp[s] : getRegion(bs, s, q)}} :
           s \in filterSrcStores(bs)}

\* balanceSolver.solve: the solutions a call may end with. best is a solution
\* of the smallest rank (betterThan decides among equal ranks, by the order in
\* which the maps are walked); the operator is dropped when
\* addPendingInfluence finds an entry for its region.
solve(bs) ==
    IF ~allowBalance(bs) THEN {NoSol}
    ELSE LET srcs == filterSrcStores(bs)
             peers == [s \in srcs |-> bsFilterHotPeers(bs, s)]
             hps == {hp \in [srcs -> UNION {peers[s] : s \in srcs}] :
                        \A s \in srcs : hp[s] \in peers[s]}
             best(hp) == LET cands == solveCandidates(bs, hp)
                         IN  {c \in cands : \A d \in cands : c.rank <= d.rank}
             registered(c) == IF bs.rp[c.region].has THEN NoSol ELSE c
         IN  UNION {IF best(hp) = {} THEN {NoSol}
                    ELSE {registered(c) : c \in best(hp)} : hp \in hps}

\* prepareForBalance, after summaryPendingInfluence: the three load tables.
\* The read and the write statistics of the cluster carry the same rates.
prepareForBalance(sums, rates, regs) ==
    [rc \in resourceTypes |->
        CASE rc = "readLeader" ->
                 summaryStoresLoad(rates, sums[rc], "read", "leader", regs)
          [] rc = "writeLeader" ->
                 summaryStoresLoad(rates, sums[rc], "write", "leader", regs)
          [] rc = "writePeer" ->
                 summaryStoresLoad(rates, sums[rc], "write", "region", regs)]

\* newBalanceSolver over the scheduler h as prepareForBalance left it.
newBalanceSolver(h, rwTy, opTy) ==
    [rwTy |-> rwTy, opTy |-> opTy,
     load |-> h.loads[toResourceType(rwTy, opTy)],
     rp |-> h.rp, regs |-> h.regs, stores |-> h.stores, opsNow |-> h.opsNow,
     allow |-> IF opTy = "movePeer" THEN h.hotOK ELSE h.leaderOK]

\* The solvers a balance function runs, in order.
\* The order in which a call would try the solvers if every perspective
\* moved peers first.
solverOrderPeerFirst(typ, peerFirst) ==
    IF typ = "read" \/ peerFirst THEN <<"movePeer", "transferLeader">>
    ELSE <<"transferLeader">>

\* The solvers a call tries, in order: balanceHotReadRegions tries the leader
\* solver and then the peer solver; balanceHotWriteRegions tries the peer
\* solver and then the leader solver when the draw falls below
\* schedulePeerPr, and the leader solver alone otherwise.
solverOrder(typ, peerFirst) ==
    IF typ = "read" THEN <<"transferLeader", "movePeer">>
    ELSE IF peerFirst THEN <<"movePeer", "transferLeader">>
    ELSE <<"transferLeader">>

\* balanceHotReadRegions and balanceHotWriteRegions: the second solver runs
\* when the first returns no operator.
balanceHotRegions(h, typ, peerFirst) ==
    LET order == solverOrder(typ, peerFirst)
        first == solve(newBalanceSolver(h, typ, order[1]))
    IN  IF Len(order) = 1 THEN first
        ELSE (first \ {NoSol})
             \cup (IF NoSol \in first
                   THEN solve(newBalanceSolver(h, typ, order[2])) ELSE {})

\* The last step of the scheduler's run: the call and, for Schedule, the
\* solution it ended with.
HotNoLast == [op |-> "none", sol |-> NoSol]

\* No Schedule call has been recorded.
NoCall == [typ |-> "none", peerFirst |-> FALSE, hotOK |-> FALSE, leaderOK |-> FALSE]

\* An addPendingInfluence that files the operator under both operation types.
addPendingInfluenceBothSlots(rp, sol, id) ==
    [rp EXCEPT ![sol.region] = [has |-> TRUE, mp |-> id, tl |-> id]]

\* addPendingInfluence, for an operator whose region has no entry.
addPendingInfluence(rp, sol, id) ==
    [rp EXCEPT ![sol.region] =
        [has |-> TRUE,
         mp |-> IF sol.opTy = "movePeer" THEN id ELSE NoOp,
         tl |-> IF sol.opTy = "transferLeader" THEN id ELSE NoOp]]

\* The scheduler as prepareForBalance leaves it: the load tables built from
\* the weighted pending influences, and regionPendings after gcRegionPendings.
schedulerAt(pend, rpend, opsNow, now, hotOK, leaderOK) ==
    [loads |-> prepareForBalance(
                   [rc \in resourceTypes |->
                       summaryPendingInfluence(pend[rc], opsNow, now)],
                   storeRate, regionInfo),
     rp |-> gcRegionPendings(rpend, opsNow, now),
     regs |-> regionInfo, stores |-> storeInfo, opsNow |-> opsNow,
     hotOK |-> hotOK, leaderOK |-> leaderOK]

\* hotScheduler.Schedule: dispatch(typ) under the scheduler's lock.
\* hotOK and leaderOK are allowBalanceRegion and allowBalanceLeader.
Schedule(typ, peerFirst, hotOK, leaderOK) ==
    \* the schedule limits are reached once MaxOps operators were built
    /\ (Len(ops) >= MaxOps) => (~hotOK /\ ~leaderOK)
    \* allowBalanceLeader asks for the hot-region limit and for the leader limit
    /\ leaderOK => hotOK
    /\ LET kept == [rc \in resourceTypes |-> pendingsKept(pendings[rc], ops, hotNow)]
           h == schedulerAt(pendings, regionPendings, ops, hotNow, hotOK, leaderOK)
           rp == h.rp
           id == Len(ops) + 1
       IN  \E sol \in balanceHotRegions(h, typ, peerFirst) :
              /\ IF sol = NoSol
                 THEN /\ ops' = ops
                      /\ pendings' = kept
                      /\ regionPendings' = rp
                 ELSE /\ ops' = Append(ops,
                            [region |-> sol.region, opTy |-> sol.opTy, rwTy |-> typ,
                             from |-> sol.src, to |-> sol.dst,
                             byte |-> regionInfo[sol.region].byte,
                             key |-> regionInfo[sol.region].key,
                             status |-> "STARTED", createTime |-> hotNow,
                             endTime |-> hotNow])
                      /\ pendings' = [kept EXCEPT
                            ![toResourceType(typ, sol.opTy)] = @ \cup {id}]
                      /\ regionPendings' = addPendingInfluence(rp, sol, id)
              /\ hotLast' = [op |-> "schedule", sol |-> sol]
    /\ UNCHANGED <<regionInfo, storeInfo, storeRate, hotNow>>
    /\ UNCHANGED hotFrame

\* The region after the operator op has succeeded.
applyOperator(region, op) ==
    IF op.opTy = "transferLeader" THEN [region EXCEPT !.leader = op.to]
    ELSE [region EXCEPT !.stores = (@ \ {op.from}) \cup {op.to},
                        !.leader = IF @ = op.from THEN op.to ELSE @]

\* The operator controller ends a running operator, some time after it was
\* created; a successful operator has changed its region. endTime is the time
\* the operator reached its end status.
OpFinish(id, status) ==
    /\ id \in 1..Len(ops)
    /\ ops[id].status = "STARTED"
    /\ hotNow > ops[id].createTime
    /\ ops' = [ops EXCEPT ![id].status = status, ![id].endTime = hotNow]
    /\ regionInfo' = IF status = "SUCCESS"
                     THEN [regionInfo EXCEPT ![ops[id].region] = applyOperator(@, ops[id])]
                     ELSE regionInfo
    /\ hotLast' = HotNoLast
    /\ UNCHANGED <<storeInfo, storeRate, pendings, regionPendings, hotNow, hotCall>>
    /\ UNCHANGED hotFrame

\* Time passes; it is counted from the creation of the first operator.
HotTick ==
    /\ hotNow < MaxNow
    /\ ops # <<>>
    /\ hotNow' = hotNow + 1
    /\ hotLast' = HotNoLast
    /\ UNCHANGED <<regionInfo, storeInfo, storeRate, ops, pendings, regionPendings,
                   hotCall>>
    /\ UNCHANGED hotFrame

\* The scheduler as newHotScheduler leaves it.
HotFresh ==
    /\ ops = <<>>
    /\ pendings = [rc \in resourceTypes |-> {}]
    /\ regionPendings = [r \in Regions |-> NoPending]
    /\ hotNow = 0
    /\ hotLast = HotNoLast
    /\ hotCall = NoCall

\* Every peer of a region is on a store of its own and the leader is one of
\* them; a region short of a replica has MaxReplicas - 1 peers.
RegionPlacements ==
    {[stores |-> S, leader |-> l] :
        S \in {T \in SUBSET Stores : Cardinality(T) \in {MaxReplicas - 1, MaxReplicas}},
        l \in Stores} \ {p \in [stores : SUBSET Stores, leader : Stores] :
                            p.leader \notin p.stores}

\* A hot region of the statistics, and the regions that differ from it in one
\* respect.
HotRegion(p) ==
    [stores |-> p.stores, leader |-> p.leader, byte |-> HotRate, key |-> HotRate,
     hotDegree |-> HotRegionCacheHitsThreshold, healthy |-> TRUE]
RegionVariants(p) ==
    {HotRegion(p),
     [HotRegion(p) EXCEPT !.byte = LowRate],
     [HotRegion(p) EXCEPT !.byte = MidRate],
     [HotRegion(p) EXCEPT !.key = LowRate],
     [HotRegion(p) EXCEPT !.hotDegree = HotRegionCacheHitsThreshold - 1],
     [HotRegion(p) EXCEPT !.healthy = FALSE]}

StoreRates ==
    {[byte |-> LowRate, key |-> LowRate], [byte |-> MidRate, key |-> MidRate],
     [byte |-> HighRate, key |-> HighRate], [byte |-> HighRate, key |-> LowRate]}
EvenRates == {r \in StoreRates : r.byte = r.key}

\* A running cluster whose stores are all in order: both regions are hot and
\* led by store 1, the loaded store; region 1 has its follower on store 2.
HotStart ==
    /\ HotFresh
    /\ storeInfo = [s \in Stores |-> NormalStore]
    /\ storeRate \in {f \in [Stores -> EvenRates] :
                        /\ f[1].byte = HighRate
                        /\ f[2].byte # HighRate
                        /\ \A s \in Stores : s > 2 => f[s].byte = LowRate}
    /\ \E p \in {q \in RegionPlacements : Cardinality(q.stores) = MaxReplicas
                                            /\ q.leader = 1} :
          regionInfo = [r \in Regions |->
                           IF r = 1 THEN HotRegion([stores |-> {1, 2}, leader |-> 1])
                           ELSE HotRegion(p)]

\* The same cluster with region 2 short of a replica, or with a down peer or
\* no leader (opt.IsHealthyAllowPending fails).
HotStartAbnormal ==
    /\ HotFresh
    /\ storeInfo = [s \in Stores |-> NormalStore]
    /\ storeRate \in {f \in [Stores -> EvenRates] :
                        /\ f[1].byte = HighRate
                        /\ f[2].byte # HighRate
                        /\ \A s \in Stores : s > 2 => f[s].byte = LowRate}
    /\ \E p \in {q \in RegionPlacements : q.leader = 1} :
       \E v \in {[HotRegion(p) EXCEPT !.healthy = FALSE]}
                \cup {w \in {HotRegion(p)} : Cardinality(p.stores) # MaxReplicas} :
          regionInfo = [r \in Regions |->
                           IF r = 1 THEN HotRegion([stores |-> {1, 2}, leader |-> 1])
                           ELSE v]

\* A running cluster with any placement of region 2 that differs from the
\* one above in one more respect: in the rates of its stores and in what
\* region 2 is, or in one store other than store 1 being out of order.
HotStartWide ==
    /\ HotFresh
    /\ storeRate \in {f \in [Stores -> StoreRates] :
                        /\ f[1].byte = HighRate
                        /\ \A s \in Stores : s > 1 => f[s] \in EvenRates
                        /\ \A s \in Stores : s > 2 => f[s].byte # MidRate}
    /\ \E p \in RegionPlacements : \E v \in RegionVariants(p) :
       \E s \in Stores, st \in StoreProfiles :
          /\ \/ st = NormalStore /\ s = 1
             \/ /\ st # NormalStore /\ s # 1 /\ v = HotRegion(p)
                /\ storeRate[1].key = HighRate /\ storeRate[2].byte # HighRate
                /\ \A x \in Stores : x > 2 => storeRate[x].byte = LowRate
          /\ storeInfo = [x \in Stores |-> IF x = s THEN st ELSE NormalStore]
          /\ regionInfo = [r \in Regions |->
                             IF r = 1 THEN HotRegion([stores |-> {1, 2}, leader |-> 1])
                             ELSE v]

\* A server whose hot-region scheduler is not exercised.
HotIdle ==
    /\ HotFresh
    /\ storeInfo = [s \in Stores |-> NormalStore]
    /\ storeRate = [s \in Stores |-> [byte |-> LowRate, key |-> LowRate]]
    /\ regionInfo = [r \in Regions |-> HotRegion([stores |-> {1, 2}, leader |-> 1])]

ScheduleNext ==
    \E typ \in rwTypes, peerFirst \in BOOLEAN, hotOK \in BOOLEAN, leaderOK \in BOOLEAN :
        \* the draw against schedulePeerPr is made for writes only
        /\ (typ = "read") => ~peerFirst
        /\ Schedule(typ, peerFirst, hotOK, leaderOK)
        /\ UNCHANGED hotCall

\* The same calls, with their arguments recorded.
ScheduleCallNext ==
    \E typ \in rwTypes, peerFirst \in BOOLEAN, hotOK \in BOOLEAN, leaderOK \in BOOLEAN :
        /\ (typ = "read") => ~peerFirst
        /\ Schedule(typ, peerFirst, hotOK, leaderOK)
        /\ hotCall' = [typ |-> typ, peerFirst |-> peerFirst, hotOK |-> hotOK,
                       leaderOK |-> leaderOK]

HotNext ==
    \/ ScheduleNext
    \/ \E id \in 1..MaxOps, status \in {"SUCCESS", "CANCELED", "TIMEOUT"} :
          OpFinish(id, status)
    \/ HotTick

(***************************************************************************)
(*                        Operator controller                              *)
(***************************************************************************)
\* Bounds of the model.
NumOpcRegions == 2      \* regions known to the controller
MaxOperators == 2       \* operators the controller admits
MaxPriority == 1        \* priorities are 0 (low) .. MaxPriority (high)
StoreTokens == 1        \* store-limit tokens of a store
LeaderScheduleLimit == 1    \* leader transfers that may be in flight together
RegionScheduleLimit == 2    \* peer moves that may be in flight together
MaxDone == 2            \* steps a region executes between two heartbeats

NoOperator == 0
OpcRegions == 1..NumOpcRegions
Priorities == 0..MaxPriority
LiveStatuses == {"CREATED", "STARTED"}

\* The steps of an operator that moves the peer on the store from to the
\* store to (the leader is transferred to the new peer before its own peer
\* is removed), and of one that transfers the leader to the store to.
operatorSteps(kind, from, to, cfg) ==
    IF kind = "movePeer"
    THEN <<[ty |-> "AddLearner", store |-> to],
           [ty |-> "PromoteLearner", store |-> to]>>
         \o (IF cfg.leader = from
             THEN <<[ty |-> "TransferLeader", store |-> to]>> ELSE <<>>)
         \o <<[ty |-> "RemovePeer", store |-> from]>>
    ELSE <<[ty |-> "TransferLeader", store |-> to]>>

\* Whether the configuration cfg of a region shows the step done.
stepIsFinish(step, cfg) ==
    CASE step.ty = "AddLearner" -> step.store \in cfg.stores
      [] step.ty = "PromoteLearner" ->
             step.store \in cfg.stores /\ step.store \notin cfg.learners
      [] step.ty = "RemovePeer" -> step.store \notin cfg.stores
      [] step.ty = "TransferLeader" -> cfg.leader = step.store

\* The configuration after the region has executed the step.
stepApply(step, cfg) ==
    CASE step.ty = "AddLearner" ->
             [cfg EXCEPT !.stores = @ \cup {step.store},
                         !.learners = @ \cup {step.store}]
      [] step.ty = "PromoteLearner" -> [cfg EXCEPT !.learners = @ \ {step.store}]
      [] step.ty = "RemovePeer" ->
             [cfg EXCEPT !.stores = @ \ {step.store}, !.learners = @ \ {step.store}]
      [] step.ty = "TransferLeader" -> [cfg EXCEPT !.leader = step.store]

\* The configuration after the region has executed done steps from index from.
RECURSIVE applySteps(_, _, _, _)
applySteps(steps, from, done, cfg) ==
    IF done = 0 \/ from > Len(steps) THEN cfg
    ELSE applySteps(steps, from + 1, done - 1, stepApply(steps[from], cfg))

\* A controller that takes every step for done whatever the region reports.
checkStepBlind(steps, from, cfg) ==
    IF from > Len(steps) THEN from ELSE from + 1

\* The index of the first step from index from on that cfg does not show
\* done; Len(steps) + 1 when every step is done.
RECURSIVE checkStep(_, _, _)
checkStep(steps, from, cfg) ==
    IF from > Len(steps) THEN from
    ELSE IF stepIsFinish(steps[from], cfg) THEN checkStep(steps, from + 1, cfg)
    ELSE from

\* The stores whose token an operator at step index step still holds: a step
\* that adds or removes a peer holds a token of its store until it is done.
tokensHeld(op, step) ==
    {op.steps[i].store : i \in {j \in step..Len(op.steps) :
                                    op.steps[j].ty \in {"AddLearner", "RemovePeer"}}}

\* Whether the region state agrees with the prerequisites of the operator.
prerequisites(kind, from, to, cfg) ==
    IF kind = "movePeer"
    THEN from \in cfg.stores /\ from \notin cfg.learners /\ to \notin cfg.stores
    ELSE from = cfg.leader /\ to \in cfg.stores /\ to \notin cfg.learners /\ to # from

\* A controller that stores the new operator and leaves the prior one as it is.
replaceOperatorKeep(opsNow, old) == opsNow

\* The operators after the one with id old (if any) was replaced.
replaceOperator(opsNow, old) ==
    IF old = NoOperator THEN opsNow
    ELSE [opsNow EXCEPT ![old].status = "REPLACED"]

\* The tokens after the operator with id old (if any) gave back those it held.
releaseTokens(tokens, opsNow, old) ==
    IF old = NoOperator THEN tokens
    ELSE [s \in Stores |->
             IF s \in tokensHeld(opsNow[old], opsNow[old].step)
             THEN tokens[s] + 1 ELSE tokens[s]]

\* The schedule limit of the operators of a kind.
scheduleLimit(kind) ==
    IF kind = "movePeer" THEN RegionScheduleLimit ELSE LeaderScheduleLimit

OpcNoLast ==
    [op |-> "none", region |-> 0, id |-> NoOperator, prior |-> NoOperator,
     admitted |-> FALSE, replay |-> FALSE]

\* AddOperator: admission of an operator for region r. It is rejected when
\* the region has an operator of equal or higher priority, when the schedule
\* limit would be exceeded, when a store of a step has no token left, or when
\* the region state disagrees with the prerequisites; otherwise a
\* lower-priority operator of the region ends as Replaced, and the operator
\* is stored, reserves its tokens and is started.
AddOperator(r, kind, from, to, priority) ==
    /\ Len(opcOps) < MaxOperators
    /\ LET id == Len(opcOps) + 1
           old == opcMap[r]
           op == [region |-> r, kind |-> kind, priority |-> priority,
                  steps |-> operatorSteps(kind, from, to, opcRegion[r]),
                  step |-> 1, status |-> "STARTED"]
           freed == releaseTokens(opcTokens, opcOps, old)
           live == {i \in 1..Len(opcOps) :
                       /\ opcOps[i].status \in LiveStatuses
                       /\ opcOps[i].kind = kind
                       /\ i # old}
           admitted ==
               /\ (old # NoOperator) => opcOps[old].priority < priority
               /\ Cardinality(live) < scheduleLimit(kind)
               /\ \A s \in tokensHeld(op, 1) : freed[s] > 0
               /\ prerequisites(kind, from, to, opcRegion[r])
       IN  /\ IF admitted
              THEN /\ opcOps' = Append(replaceOperator(opcOps, old), op)
                   /\ opcMap' = [opcMap EXCEPT ![r] = id]
                   /\ opcTokens' = [s \in Stores |->
                                       IF s \in tokensHeld(op, 1)
                                       THEN freed[s] - 1 ELSE freed[s]]
              ELSE UNCHANGED <<opcOps, opcMap, opcTokens>>
           /\ opcLast' = [op |-> "add", region |-> r,
                          id |-> IF admitted THEN id ELSE NoOperator,
                          prior |-> old, admitted |-> admitted,
                          replay |-> FALSE]
    /\ UNCHANGED <<opcRegion, opcHistory>>
    /\ UNCHANGED opcFrame

\* A region heartbeat: the region reports the configuration it has after
\* executing the next done steps of its operator; with done = 0 the
\* heartbeat carries the configuration the controller already knows. The
\* controller advances the operator over every step the configuration shows
\* done, releases the tokens of these steps and, after the last step,
\* records the operator as a success.
RegionHeartbeat(r, done) ==
    LET id == opcMap[r]
        cfg == IF id = NoOperator THEN opcRegion[r]
               ELSE applySteps(opcOps[id].steps, opcOps[id].step, done, opcRegion[r])
        next == IF id = NoOperator THEN 0
                ELSE checkStep(opcOps[id].steps, opcOps[id].step, cfg)
    IN  /\ (id = NoOperator) => done = 0
        /\ (id # NoOperator) => opcOps[id].step + done <= Len(opcOps[id].steps) + 1
        /\ opcRegion' = [opcRegion EXCEPT ![r] = cfg]
        /\ IF id = NoOperator
           THEN UNCHANGED <<opcOps, opcMap, opcTokens, opcHistory>>
           ELSE /\ opcOps' = [opcOps EXCEPT
                                ![id].step = next,
                                ![id].status = IF next > Len(opcOps[id].steps)
                                               THEN "SUCCESS" ELSE @]
                /\ opcTokens' = [s \in Stores |->
                                    IF s \in tokensHeld(opcOps[id], opcOps[id].step)
                                              \ tokensHeld(opcOps[id], next)
                                    THEN opcTokens[s] + 1 ELSE opcTokens[s]]
                /\ IF next > Len(opcOps[id].steps)
                   THEN /\ opcMap' = [opcMap EXCEPT ![r] = NoOperator]
                        /\ opcHistory' = opcHistory + 1
                   ELSE UNCHANGED <<opcMap, opcHistory>>
        /\ opcLast' = [op |-> "heartbeat", region |-> r, id |-> id,
                       prior |-> NoOperator, admitted |-> FALSE,
                       replay |-> /\ opcLast.op = "heartbeat"
                                  /\ opcLast.region = r
                                  /\ cfg = opcRegion[r]]
        /\ UNCHANGED opcFrame

\* The controller ends the operator of region r: its step budget ran out
\* (Timeout) or it was cancelled.
EndOperator(r, status) ==
    /\ opcMap[r] # NoOperator
    /\ opcOps' = [opcOps EXCEPT ![opcMap[r]].status = status]
    /\ opcMap' = [opcMap EXCEPT ![r] = NoOperator]
    /\ opcTokens' = releaseTokens(opcTokens, opcOps, opcMap[r])
    /\ opcLast' = [op |-> "end", region |-> r, id |-> opcMap[r],
                   prior |-> NoOperator, admitted |-> FALSE, replay |-> FALSE]
    /\ UNCHANGED <<opcRegion, opcHistory>>
    /\ UNCHANGED opcFrame

\* The controller of a running cluster before any operator: every region has
\* its leader on store 1 and a follower on store 2.
OpcFresh ==
    /\ opcOps = <<>>
    /\ opcMap = [r \in OpcRegions |-> NoOperator]
    /\ opcTokens = [s \in Stores |-> StoreTokens]
    /\ opcRegion = [r \in OpcRegions |->
                       [stores |-> {1, 2}, learners |-> {}, leader |-> 1]]
    /\ opcHistory = 0
    /\ opcLast = OpcNoLast

OpcStart == OpcFresh

OpcIdle == OpcFresh

OpcNext ==
    \/ \E r \in OpcRegions, kind \in opTypes, from \in Stores, to \in Stores,
          priority \in Priorities : AddOperator(r, kind, from, to, priority)
    \/ \E r \in OpcRegions, done \in 0..MaxDone : RegionHeartbeat(r, done)
    \/ \E r \in OpcRegions, status \in {"TIMEOUT", "CANCELED"} : EndOperator(r, status)


(***************************************************************************)
(*                     RegionsInfo (server/core)                           *)
(*                                                                         *)
(* The region index: the regions by id, the region tree by key range, and  *)
(* per store the subtrees of the regions it leads, follows, holds as a     *)
(* learner and holds as a pending peer. A peer is named by its store.      *)
(***************************************************************************)

\* Bounds of the model.
NumRegionIDs == 3       \* region ids 1..NumRegionIDs
MaxKey == 2             \* keys 0..MaxKey; a region covers [startKey, endKey)

NoRegion == [id |-> 0]
RegionIDs == 1..NumRegionIDs
Keys == 0..MaxKey

\* Whether a region is one a heartbeat may report: a key range, two voters,
\* one of them the leader, at most one learner (which may also be listed as
\* a voter, as TestSetRegion does) and at most one pending peer.
IsRegionInput(region) ==
    /\ region.startKey < region.endKey
    /\ region.leader \in region.voters
    /\ region.leader \notin region.learners

RegionInputs ==
    {region \in
        [id : RegionIDs, startKey : Keys, endKey : Keys, voters : {{1, 2}, {1, 3}},
         leader : Stores, learners : {{}, {3}}, pendingPeers : {{}, {1}}] :
        IsRegionInput(region)}

treeItem(region) ==
    [id |-> region.id, startKey |-> region.startKey, endKey |-> region.endKey]

GetFollowers(region) == region.voters \ {region.leader}

\* A comparison that leaves the pending peers out.
shouldRemoveFromSubTreeNoPending(region, origin) ==
    \/ origin.leader # region.leader
    \/ origin.voters # region.voters
    \/ origin.learners # region.learners

\* A comparison that looks at the leader only.
shouldRemoveFromSubTreeLeaderOnly(region, origin) ==
    origin.leader # region.leader

\* Whether the subtrees of the stores have to drop origin before region is
\* added: the leader, the voters' stores, the learners or the pending peers
\* differ.
shouldRemoveFromSubTree(region, origin) ==
    \/ origin.leader # region.leader
    \/ origin.voters # region.voters
    \/ origin.learners # region.learners
    \/ origin.pendingPeers # region.pendingPeers

\* The subtrees sub after the region with the id and the stores gone left them.
subTreeWithout(sub, id, gone) ==
    [s \in Stores |-> IF s \in gone THEN sub[s] \ {id} ELSE sub[s]]

\* The subtrees sub after the region with the id joined those of the stores.
subTreeWith(sub, id, stores) ==
    [s \in Stores |-> IF s \in stores THEN sub[s] \cup {id} ELSE sub[s]]

\* The subtrees sub of one role after every region of the set olds left the
\* subtrees of the stores it had in that role; role(o) is that set of stores.
RECURSIVE subTreeWithoutAll(_, _, _)
subTreeWithoutAll(sub, olds, role) ==
    IF olds = {} THEN sub
    ELSE LET o == CHOOSE x \in olds : TRUE
         IN  subTreeWithoutAll(
                 subTreeWithout(sub, o.id,
                     CASE role = "leader" -> {o.leader}
                       [] role = "follower" -> GetFollowers(o)
                       [] role = "learner" -> o.learners
                       [] role = "pending" -> o.pendingPeers),
                 olds \ {o}, role)

RegNoLast == [op |-> "none", evicted |-> 0, known |-> FALSE, moved |-> FALSE]

\* SetRegion: an origin with the id of region leaves the tree and the map
\* when its key range differs, and the subtrees when
\* shouldRemoveFromSubTree says so; then the region is added: unless it
\* replaces the item of its origin in place, the tree takes it and the
\* regions overlapping it are removed from the tree, the map and the
\* subtrees; the region is put into the map and into the subtrees of the
\* stores of its peers.
SetRegion(region) ==
    LET origin == regions[region.id]
        known == origin # NoRegion
        rangeChanged ==
            known /\ (origin.startKey # region.startKey \/ origin.endKey # region.endKey)
        drop == known /\ shouldRemoveFromSubTree(region, origin)
        \* after the origin was removed
        tree1 == IF rangeChanged THEN tree \ {treeItem(origin)} ELSE tree
        gone == IF drop THEN {origin} ELSE {}
        \* AddRegion
        treeNeedAdd == ~(known /\ ~rangeChanged)
        overlaps ==
            IF treeNeedAdd
            THEN {regions[i.id] : i \in {j \in tree1 :
                     j.startKey < region.endKey /\ region.startKey < j.endKey}}
            ELSE {}
        out == gone \cup overlaps
    IN  /\ tree' = (tree1 \ {treeItem(o) : o \in overlaps}) \cup {treeItem(region)}
        /\ regions' = [i \in RegionIDs |->
                         IF i = region.id THEN region
                         ELSE IF i \in {o.id : o \in overlaps} THEN NoRegion
                         ELSE regions[i]]
        /\ leaders' = subTreeWith(subTreeWithoutAll(leaders, out, "leader"),
                                  region.id, {region.leader})
        /\ followers' = subTreeWith(subTreeWithoutAll(followers, out, "follower"),
                                    region.id, GetFollowers(region))
        /\ learners' = subTreeWith(subTreeWithoutAll(learners, out, "learner"),
                                   region.id, region.learners)
        /\ pendingPeers' = subTreeWith(subTreeWithoutAll(pendingPeers, out, "pending"),
                                       region.id, region.pendingPeers)
        /\ regLast' = [op |-> "set", evicted |-> Cardinality(overlaps),
                       known |-> known, moved |-> drop]
        /\ UNCHANGED regFrame

\* NewRegionsInfo: nothing stored.
RegFresh ==
    /\ regions = [i \in RegionIDs |-> NoRegion]
    /\ tree = {}
    /\ leaders = [s \in Stores |-> {}]
    /\ followers = [s \in Stores |-> {}]
    /\ learners = [s \in Stores |-> {}]
    /\ pendingPeers = [s \in Stores |-> {}]
    /\ regLast = RegNoLast
    /\ regCall = 0

RegStart == RegFresh

RegIdle == RegFresh

RegNext == \E region \in RegionInputs : SetRegion(region) /\ UNCHANGED regCall

\* The calls for two region ids and regions of one key in width, with the id
\* recorded.
RegionInputsFew ==
    {region \in RegionInputs : region.id <= 2 /\ region.endKey = region.startKey + 1}

RegCallNext ==
    \E region \in RegionInputsFew : SetRegion(region) /\ regCall' = region.id



(***************************************************************************)
(*          The hot scheduler's lock and its exported accessors            *)
(***************************************************************************)
\* Bounds of the model.
NumAccessors == 2       \* accessor calls made by other goroutines
MaxCalls == 2           \* Schedule calls
MaxRefs == 5            \* maps allocated: one at construction, one per call

Accessors == 1..NumAccessors
Refs == 1..MaxRefs
NilMap == 0             \* the nil map clearPendingInfluence stores
FreeRef == -2           \* a reference not allocated yet
CallerMark == -1        \* content written by the caller of an accessor

\* make(map...): the reference of the new map.
newRef == CHOOSE r \in Refs : lkHeap[r] = FreeRef /\ \A q \in Refs : q < r => lkHeap[q] # FreeRef

\* An accessor that hands out the scheduler's own map.
copyPendingInfluenceShared(own, fresh) == own

\* copyPendingInfluence: ret is a new map filled from h.pendingSums[ty].
copyPendingInfluence(own, fresh) == fresh

\* The function fn touches a field: it is recorded unless the goroutine holds
\* the lock in the mode the access needs.
touch(fn, holds) == IF holds THEN lkUnguarded ELSE lkUnguarded \cup {fn}

AccIdle == [pc |-> "idle", op |-> "none", leader |-> 0, peer |-> 0, ret |-> NilMap]

\* dispatch: h.Lock().
ScheduleLock ==
    /\ lkPc = "idle"
    /\ lkGen < MaxCalls
    /\ ~lkWriter /\ lkReaders = {}
    /\ lkWriter' = TRUE
    /\ lkPc' = "locked"
    /\ lkGen' = lkGen + 1
    /\ UNCHANGED <<lkReaders, lkState, lkHeap, lkAcc, lkUnguarded>>
    /\ UNCHANGED lkFrame

\* prepareForBalance, h.summaryPendingInfluence(): pendingSums becomes a new
\* map and gcRegionPendings rewrites regionPendings.
ScheduleSummary ==
    /\ lkPc = "locked"
    /\ lkHeap' = [lkHeap EXCEPT ![newRef] = lkGen]
    /\ lkState' = [lkState EXCEPT !.pendingSums = newRef, !.regionPendings = lkGen]
    /\ lkPc' = "sums"
    /\ lkUnguarded' = touch("Schedule", lkWriter)
    /\ UNCHANGED <<lkWriter, lkReaders, lkGen, lkAcc>>
    /\ UNCHANGED lkFrame

\* prepareForBalance: h.stLoadInfos[writeLeader] = summaryStoresLoad(...).
ScheduleLoadLeader ==
    /\ lkPc = "sums"
    /\ lkState' = [lkState EXCEPT !.writeLeader = lkGen]
    /\ lkPc' = "leader"
    /\ lkUnguarded' = touch("Schedule", lkWriter)
    /\ UNCHANGED <<lkWriter, lkReaders, lkGen, lkHeap, lkAcc>>
    /\ UNCHANGED lkFrame

\* prepareForBalance: h.stLoadInfos[writePeer] = summaryStoresLoad(...).
ScheduleLoadPeer ==
    /\ lkPc = "leader"
    /\ lkState' = [lkState EXCEPT !.writePeer = lkGen]
    /\ lkPc' = "peer"
    /\ lkUnguarded' = touch("Schedule", lkWriter)
    /\ UNCHANGED <<lkWriter, lkReaders, lkGen, lkHeap, lkAcc>>
    /\ UNCHANGED lkFrame

\* balanceHot*Regions: with an operator addPendingInfluence writes pendings
\* and regionPendings; then the deferred h.Unlock().
ScheduleUnlock(built) ==
    /\ lkPc = "peer"
    /\ lkState' = IF built
                  THEN [lkState EXCEPT !.pendings = lkGen, !.regionPendings = lkGen]
                  ELSE lkState
    /\ lkUnguarded' = touch("Schedule", lkWriter)
    /\ lkWriter' = FALSE
    /\ lkPc' = "idle"
    /\ UNCHANGED <<lkReaders, lkGen, lkHeap, lkAcc>>
    /\ UNCHANGED lkFrame

\* An accessor call starts: h.RLock().
AccessorRLock(a, op) ==
    /\ lkAcc[a].pc = "idle"
    /\ ~lkWriter
    /\ lkReaders' = lkReaders \cup {a}
    /\ lkAcc' = [lkAcc EXCEPT ![a] = [@ EXCEPT !.pc = "rlocked", !.op = op]]
    /\ UNCHANGED <<lkWriter, lkPc, lkGen, lkState, lkHeap, lkUnguarded>>
    /\ UNCHANGED lkFrame

\* GetHotWriteStatus: the loop over h.stLoadInfos[writeLeader].
StatusReadLeader(a) ==
    /\ lkAcc[a].pc = "rlocked" /\ lkAcc[a].op = "status"
    /\ lkAcc' = [lkAcc EXCEPT ![a] = [@ EXCEPT !.pc = "leader",
                                               !.leader = lkState.writeLeader]]
    /\ lkUnguarded' = touch("GetHotWriteStatus", a \in lkReaders)
    /\ UNCHANGED <<lkWriter, lkReaders, lkPc, lkGen, lkState, lkHeap>>
    /\ UNCHANGED lkFrame

\* GetHotWriteStatus: the loop over h.stLoadInfos[writePeer], and the return
\* with the deferred h.RUnlock().
StatusReadPeer(a) ==
    /\ lkAcc[a].pc = "leader"
    /\ lkAcc' = [lkAcc EXCEPT ![a] = [@ EXCEPT !.pc = "returned",
                                               !.peer = lkState.writePeer]]
    /\ lkUnguarded' = touch("GetHotWriteStatus", a \in lkReaders)
    /\ lkReaders' = lkReaders \ {a}
    /\ UNCHANGED <<lkWriter, lkPc, lkGen, lkState, lkHeap>>
    /\ UNCHANGED lkFrame

\* copyPendingInfluence: make the map, copy every entry of h.pendingSums[ty]
\* (none when it is nil), and return with the deferred h.RUnlock().
InfluenceCopy(a) ==
    /\ lkAcc[a].pc = "rlocked" /\ lkAcc[a].op = "influence"
    /\ LET own == lkState.pendingSums
           ret == IF own = NilMap THEN newRef ELSE copyPendingInfluence(own, newRef)
       IN  /\ lkHeap' = [lkHeap EXCEPT ![newRef] = IF own = NilMap THEN 0 ELSE lkHeap[own]]
           /\ lkAcc' = [lkAcc EXCEPT ![a] = [@ EXCEPT !.pc = "returned", !.ret = ret]]
    /\ lkUnguarded' = touch("copyPendingInfluence", a \in lkReaders)
    /\ lkReaders' = lkReaders \ {a}
    /\ UNCHANGED <<lkWriter, lkPc, lkGen, lkState>>
    /\ UNCHANGED lkFrame

\* The caller writes into the map an accessor returned to it.
CallerMutates(a) ==
    /\ lkAcc[a].pc = "returned" /\ lkAcc[a].op = "influence"
    /\ lkHeap[lkAcc[a].ret] # CallerMark
    /\ lkHeap' = [lkHeap EXCEPT ![lkAcc[a].ret] = CallerMark]
    /\ UNCHANGED <<lkWriter, lkReaders, lkPc, lkGen, lkState, lkAcc, lkUnguarded>>
    /\ UNCHANGED lkFrame

\* clearPendingInfluence: it takes no lock; its callers run it between the
\* calls of the scheduler.
ClearPendingInfluence ==
    /\ lkPc = "idle"
    /\ \A a \in Accessors : lkAcc[a].pc \in {"idle", "returned"}
    /\ lkState.pendingSums # NilMap
    /\ lkState' = [lkState EXCEPT !.pendings = 0, !.pendingSums = NilMap,
                                  !.regionPendings = 0]
    /\ lkUnguarded' = touch("clearPendingInfluence", lkWriter)
    /\ UNCHANGED <<lkWriter, lkReaders, lkPc, lkGen, lkHeap, lkAcc>>
    /\ UNCHANGED lkFrame

\* newHotScheduler: no call is running; pendingSums holds no map yet.
LkFresh ==
    /\ lkWriter = FALSE
    /\ lkReaders = {}
    /\ lkPc = "idle"
    /\ lkGen = 0
    /\ lkState = [pendings |-> 0, regionPendings |-> 0, pendingSums |-> NilMap,
                  writeLeader |-> 0, writePeer |-> 0]
    /\ lkHeap = [r \in Refs |-> FreeRef]
    /\ lkAcc = [a \in Accessors |-> AccIdle]
    /\ lkUnguarded = {}

LkStart == LkFresh

\* A server whose accessors are not called.
LkIdle == LkFresh

LkNext ==
    \/ ScheduleLock
    \/ ScheduleSummary
    \/ ScheduleLoadLeader
    \/ ScheduleLoadPeer
    \/ \E built \in BOOLEAN : ScheduleUnlock(built)
    \/ \E a \in Accessors, op \in {"status", "influence"} : AccessorRLock(a, op)
    \/ \E a \in Accessors : StatusReadLeader(a)
    \/ \E a \in Accessors : StatusReadPeer(a)
    \/ \E a \in Accessors : InfluenceCopy(a)
    \/ \E a \in Accessors : CallerMutates(a)
    \/ ClearPendingInfluence

(***************************************************************************)
(*                          Region scatterer                               *)
(***************************************************************************)
\* Bounds of the model.
NumScStores == 5        \* the cluster has stores 1..NumScStores
ScReplicas == 3         \* max-replicas: peers of a replicated region
MaxScatter == 4         \* Scatter calls of a run

ScStores == 1..NumScStores
NoLabel == 0            \* a store without location label
NoStore == 0            \* the leader of a region that has none

\* core.DistinctScore for the single location label; a store without the
\* label differs from no other store.
scDistinctScore(zone, others, s) ==
    Cardinality({o \in others : o # s /\ zone[s] # NoLabel /\ zone[o] # NoLabel
                                      /\ zone[o] # zone[s]})

\* distinctScoreFilter.Target of the scoreGuard selectPeerToReplace builds from
\* the stores of the region and the store of the old peer.
scoreGuardTarget(zone, regionStores, source, s) ==
    LET newStores == regionStores \ {source}
    IN  scDistinctScore(zone, newStores, s) >= scDistinctScore(zone, newStores, source)

\* A collectAvailableStores that does not exclude the stores of the region.
collectAvailableStoresAnywhere(regionStores, selected) ==
    {s \in ScStores :
        /\ StoreStateFilterTarget([TransferLeader |-> FALSE, MoveRegion |-> TRUE],
                                  scStoreInfo[s])
        /\ StoreStateFilterTarget([TransferLeader |-> FALSE, MoveRegion |-> FALSE],
                                  scStoreInfo[s])
        /\ excludedFilterTarget(selected, s)
        /\ ~scStoreInfo[s].busy}

\* collectAvailableStores: the stores outside the region that pass the store
\* state filters, were not selected in the group since the last reset, and
\* are not busy. Every store is of the ordinary engine.
collectAvailableStores(regionStores, selected) ==
    {s \in ScStores :
        /\ excludedFilterTarget(regionStores, s)
        /\ StoreStateFilterTarget([TransferLeader |-> FALSE, MoveRegion |-> TRUE],
                                  scStoreInfo[s])
        /\ StoreStateFilterTarget([TransferLeader |-> FALSE, MoveRegion |-> FALSE],
                                  scStoreInfo[s])
        /\ excludedFilterTarget(selected, s)
        /\ ~scStoreInfo[s].busy}

\* A put that never looks at the stores placed before.
selectedStoresPutAlways(checkExist, placed, count, id) ==
    [ok |-> TRUE,
     placed |-> IF checkExist THEN placed \cup {id} ELSE placed,
     count |-> [count EXCEPT ![id] = @ + 1]]

\* selectedStores.put(id, group) for the one group, placed being
\* s.stores[group] and count s.groupDistribution[group]: whether it returns
\* true, and the two maps after it.
selectedStoresPut(checkExist, placed, count, id) ==
    IF checkExist /\ id \in placed
    THEN [ok |-> FALSE, placed |-> placed, count |-> count]
    ELSE [ok |-> TRUE,
          placed |-> IF checkExist THEN placed \cup {id} ELSE placed,
          count |-> [count EXCEPT ![id] = @ + 1]]

\* A replacement taken among all candidates, whatever their count.
selectPeerToReplaceAny(regionStores, stores, oldStore, count) ==
    {s \in stores : scoreGuardTarget(scZone, regionStores, oldStore, s)}

\* selectPeerToReplace: the stores it may return, none when no candidate
\* passes the scoreGuard. The candidates are gathered in the order of a map
\* iteration and the first of the smallest count wins.
selectPeerToReplace(regionStores, stores, oldStore, count) ==
    LET candidates == {s \in stores : scoreGuardTarget(scZone, regionStores, oldStore, s)}
    IN  {s \in candidates : \A o \in candidates : count[s] <= count[o]}

\* scatterWithSameEngine, the loop over the peers from the i-th on: every way
\* it may end. st is [stores, selected, count, targets, trace]; trace keeps,
\* for each peer, what the loop found when it turned to it.
RECURSIVE scatterLoop(_, _, _, _)
scatterLoop(regionStores, peers, i, st) ==
    IF i > Len(peers) THEN {st}
    ELSE LET peer == peers[i]
             empty == st.stores = {}
             \* context.selectedPeer.reset() and a second collectAvailableStores
             sel == IF empty THEN {} ELSE st.selected
             stores == IF empty THEN collectAvailableStores(regionStores, {})
                       ELSE st.stores
             found == [peer |-> peer, reset |-> empty, selected |-> sel,
                       stores |-> stores, count |-> st.count]
             kept == selectedStoresPut(TRUE, sel, st.count, peer)
         IN  IF kept.ok
             THEN \* selectedPeer.put succeeds
                  scatterLoop(regionStores, peers, i + 1,
                      [stores |-> stores \ {peer},
                       selected |-> kept.placed,
                       count |-> kept.count,
                       targets |-> Append(st.targets, peer),
                       trace |-> Append(st.trace, found)])
             ELSE LET news == selectPeerToReplace(regionStores, stores, peer, st.count)
                  IN  IF news = {}
                      THEN scatterLoop(regionStores, peers, i + 1,
                               [stores |-> stores, selected |-> sel,
                                count |-> st.count,
                                targets |-> Append(st.targets, peer),
                                trace |-> Append(st.trace, found)])
                      ELSE UNION {scatterLoop(regionStores, peers, i + 1,
                                      [stores |-> stores \ {n},
                                       selected |-> selectedStoresPut(TRUE, sel, st.count, n).placed,
                                       count |-> selectedStoresPut(TRUE, sel, st.count, n).count,
                                       targets |-> Append(st.targets, n),
                                       trace |-> Append(st.trace, found)]) :
                                  n \in news}

\* A leader taken among the target peers, whatever their leader count.
selectAvailableLeaderStoresAny(targets) == targets

\* selectAvailableLeaderStores: the stores it may return.
selectAvailableLeaderStores(targets) ==
    {s \in targets : \A o \in targets : scLeaderCount[s] <= scLeaderCount[o]}

Range(f) == {f[i] : i \in DOMAIN f}

ScNoLast == [op |-> "none", peers |-> <<>>, from |-> NoStore, targets |-> <<>>,
             trace |-> <<>>, leader |-> NoStore]

\* A check that refuses the regions short of a replica only.
scatterRefusesUnreplicated(peers, leader) == Len(peers) # ScReplicas

\* Scatter: whether it returns an error, for a region that is not fully
\* replicated or has no leader.
scatterRefuses(peers, leader) == Len(peers) # ScReplicas \/ leader = NoStore

\* RegionScatterer.Scatter(region, group) for the one group: peers are the
\* stores of region.GetPeers() in their order, leader the leader's store.
Scatter(peers, leader) ==
    /\ scScattered < MaxScatter
    /\ IF scatterRefuses(peers, leader)
       THEN \* "is not fully replicated" / "has no leader"
            /\ scLast' = [ScNoLast EXCEPT !.op = "refused", !.peers = peers,
                                          !.from = leader]
            /\ UNCHANGED <<scSelected, scCount, scLeaderCount, scScattered>>
       ELSE LET regionStores == Range(peers)
                start == [stores |-> collectAvailableStores(regionStores, scSelected),
                          selected |-> scSelected, count |-> scCount,
                          targets |-> <<>>, trace |-> <<>>]
            IN  \E end \in scatterLoop(regionStores, peers, 1, start) :
                \E targetLeader \in selectAvailableLeaderStores(Range(end.targets)) :
                   /\ scSelected' = end.selected
                   /\ scCount' = end.count
                   /\ scLeaderCount' = selectedStoresPut(FALSE, {}, scLeaderCount,
                                                         targetLeader).count
                   /\ scScattered' = scScattered + 1
                   /\ scLast' = [op |-> "scatter", peers |-> peers, from |-> leader,
                                 targets |-> end.targets, trace |-> end.trace,
                                 leader |-> targetLeader]
    /\ UNCHANGED <<scStoreInfo, scZone>>
    /\ UNCHANGED scFrame

\* The regions handed to Scatter: the peers on stores of their own, listed
\* by ascending or by descending store, the leader on the first of them or
\* missing.
RECURSIVE Ascending(_)
Ascending(S) ==
    IF S = {} THEN <<>>
    ELSE LET x == CHOOSE y \in S : \A z \in S : y <= z
         IN  <<x>> \o Ascending(S \ {x})

Reverse(s) == [i \in 1..Len(s) |-> s[Len(s) + 1 - i]]

Orders(S) == {Ascending(S), Reverse(Ascending(S))}

ScatterInputs ==
    {[peers |-> o, leader |-> o[1]] :
        o \in UNION {Orders(S) : S \in {T \in SUBSET ScStores :
                                          Cardinality(T) = ScReplicas}}} \cup
    {[peers |-> <<1, 2, 3>>, leader |-> NoStore], [peers |-> <<1, 2>>, leader |-> 1]}

\* NewRegionScatterer: nothing is selected or counted.
ScFresh ==
    /\ scSelected = {}
    /\ scCount = [s \in ScStores |-> 0]
    /\ scLeaderCount = [s \in ScStores |-> 0]
    /\ scScattered = 0
    /\ scLast = ScNoLast

\* The clusters: every store in order and without location label; or the
\* stores labelled with two zones; or the last store out of order.
ScStart ==
    /\ ScFresh
    /\ \/ /\ scStoreInfo = [s \in ScStores |-> NormalStore]
          /\ scZone = [s \in ScStores |-> NoLabel]
       \/ /\ scStoreInfo = [s \in ScStores |-> NormalStore]
          /\ scZone = [s \in ScStores |-> IF s <= 2 THEN 1 ELSE 2]
       \/ /\ scStoreInfo = [s \in ScStores |->
                              IF s = NumScStores
                              THEN [NormalStore EXCEPT !.busy = TRUE]
                              ELSE NormalStore]
          /\ scZone = [s \in ScStores |-> NoLabel]

\* A server whose scatterer is not called.
ScIdle ==
    /\ ScFresh
    /\ scStoreInfo = [s \in ScStores |-> NormalStore]
    /\ scZone = [s \in ScStores |-> NoLabel]

ScNext == \E r \in ScatterInputs : Scatter(r.peers, r.leader)

\* The calls for the regions of three placements, and the two refused ones.
ScatterInputsFew ==
    {r \in ScatterInputs :
        \/ Len(r.peers) # ScReplicas
        \/ r.leader = NoStore
        \/ r.peers \in {<<1, 2, 3>>, <<1, 2, 4>>, <<5, 4, 3>>}}

ScFewNext == \E r \in ScatterInputsFew : Scatter(r.peers, r.leader)

(***************************************************************************)
(*     selectedStores with several groups (region_scatterer.go)            *)
(***************************************************************************)
\* Bounds of the model.
NumSsStores == 2        \* the stores put are 1..NumSsStores
NumGroups == 2          \* the groups regions are scattered in
MaxSsCalls == 5         \* put and reset calls of a run

SsStores == 1..NumSsStores
SsGroups == 1..NumGroups

\* A group that has no entry in a map reads as the empty set or as counts
\* of zero.
SsNoStores == [g \in SsGroups |-> {}]
SsNoCounts == [g \in SsGroups |-> [s \in SsStores |-> 0]]

\* A reset that forgets the stores of the first group only.
selectedStoresResetOneGroup(checkExist, stores) ==
    IF ~checkExist THEN stores ELSE [stores EXCEPT ![1] = {}]

\* selectedStores.reset: s.stores after it.
selectedStoresReset(checkExist, stores) ==
    IF ~checkExist THEN stores ELSE SsNoStores

SsNoLast == [op |-> "none", group |-> 0, id |-> 0, ok |-> FALSE, before |-> SsNoStores]

\* s.put(id, group)
SsPut(id, group) ==
    /\ ssCalls < MaxSsCalls
    /\ LET put == selectedStoresPut(ssCheckExist, ssStores[group],
                                    ssGroupDistribution[group], id)
       IN  /\ ssStores' = [ssStores EXCEPT ![group] = put.placed]
           /\ ssGroupDistribution' = [ssGroupDistribution EXCEPT ![group] = put.count]
           /\ ssLast' = [op |-> "put", group |-> group, id |-> id, ok |-> put.ok,
                         before |-> ssStores]
    /\ ssCalls' = ssCalls + 1
    /\ UNCHANGED ssCheckExist
    /\ UNCHANGED ssFrame

\* s.reset(), called by scatterWithSameEngine when the group it scatters has
\* no candidate store left.
SsReset ==
    /\ ssCalls < MaxSsCalls
    /\ ssStores' = selectedStoresReset(ssCheckExist, ssStores)
    /\ ssLast' = [SsNoLast EXCEPT !.op = "reset", !.before = ssStores]
    /\ ssCalls' = ssCalls + 1
    /\ UNCHANGED <<ssCheckExist, ssGroupDistribution>>
    /\ UNCHANGED ssFrame

\* newSelectedStores(checkExist)
SsFresh ==
    /\ ssStores = SsNoStores
    /\ ssGroupDistribution = SsNoCounts
    /\ ssLast = SsNoLast
    /\ ssCalls = 0

\* selectedPeer is built with checkExist, selectedLeader without.
SsStart == SsFresh /\ ssCheckExist \in BOOLEAN

SsIdle == SsFresh /\ ssCheckExist = TRUE

SsNext ==
    \/ \E id \in SsStores, group \in SsGroups : SsPut(id, group)
    \/ SsReset

(***************************************************************************)
(*          Replica checker (server/schedule/checker), from spec.md         *)
(***************************************************************************)

NumRcStores == 5
MaxChecks == 2
RcStores == 1..NumRcStores
\* The stores the region starts on.
RcRegionStores == {1, 2, 3}

\* The steps of an operator.
TransferLeader(from, to) == [type |-> "TransferLeader", from |-> from, to |-> to]
AddLearner(to) == [type |-> "AddLearner", from |-> NoStore, to |-> to]
PromoteLearner(to) == [type |-> "PromoteLearner", from |-> NoStore, to |-> to]
RemovePeer(from) == [type |-> "RemovePeer", from |-> from, to |-> NoStore]

regionStoresOf(region) == region.voters \cup region.learners

\* The peers the checker replaces: a peer that stays pending, then a peer on
\* an Offline store.
pendingPeersToReplace(region) == region.pending
offlinePeersToReplace(stores, region) ==
    {s \in regionStoresOf(region) : stores[s].state = "Offline"}

\* The stores a replacement peer may go to: Up and without peer of the region.
replaceTargets(stores, region) ==
    {n \in RcStores : n \notin regionStoresOf(region) /\ stores[n].state = "Up"}

\* The voters that may take the leader over from store old: their store is
\* not rejected by the reject-leader label property.
leaderTargets(stores, region, old) ==
    {t \in region.voters \ {old} : ~stores[t].rejectLeader}

\* A replacement that moves the leader away only after the old peer is gone.
movePeerStepsTransferLast(region, old, new, to) ==
    <<AddLearner(new), PromoteLearner(new), RemovePeer(old)>>
        \o (IF region.leader = old THEN <<TransferLeader(old, to)>> ELSE <<>>)

\* The steps that replace the peer on store old by a peer on store new; to
\* is the voter that takes the leader when old hosts it.
movePeerSteps(region, old, new, to) ==
    (IF region.leader = old THEN <<TransferLeader(old, to)>> ELSE <<>>)
        \o <<AddLearner(new), PromoteLearner(new), RemovePeer(old)>>

\* The operators Check may return for the region, each as [kind, store, steps].
replaceOperators(stores, region, kind, olds) ==
    {[kind |-> kind, store |-> old, steps |-> movePeerSteps(region, old, new, to)] :
        <<old, new, to>> \in
            {x \in olds \X replaceTargets(stores, region) \X (RcStores \cup {NoStore}) :
                IF region.leader = x[1]
                THEN x[3] \in leaderTargets(stores, region, x[1])
                ELSE x[3] = NoStore}}

checkOperators(stores, region) ==
    IF pendingPeersToReplace(region) # {}
    THEN replaceOperators(stores, region, "replace-pending-replica",
                          pendingPeersToReplace(region))
    ELSE replaceOperators(stores, region, "replace-offline-replica",
                          offlinePeersToReplace(stores, region))

RcNoLast == [kind |-> "none", store |-> NoStore, leader |-> NoStore, peers |-> {},
             done |-> <<>>]

\* ReplicaChecker.Check(region): the operator for the region, or none.
Check ==
    /\ rcOp = <<>>
    /\ rcChecks < MaxChecks
    /\ rcChecks' = rcChecks + 1
    /\ LET found == checkOperators(rcStore, rcRegion)
       IN  IF found = {}
           THEN /\ rcOp' = <<>>
                /\ rcLast' = [RcNoLast EXCEPT !.leader = rcRegion.leader,
                                              !.peers = regionStoresOf(rcRegion)]
           ELSE \E op \in found :
                   /\ rcOp' = op.steps
                   /\ rcLast' = [kind |-> op.kind, store |-> op.store,
                                 leader |-> rcRegion.leader,
                                 peers |-> regionStoresOf(rcRegion), done |-> <<>>]
    /\ UNCHANGED <<rcStore, rcRegion, rcFrame>>

\* The region after a step of its operator has been carried out.
applyStep(region, step) ==
    CASE step.type = "TransferLeader" -> [region EXCEPT !.leader = step.to]
      [] step.type = "AddLearner" -> [region EXCEPT !.learners = @ \cup {step.to}]
      [] step.type = "PromoteLearner" ->
            [region EXCEPT !.learners = @ \ {step.to}, !.voters = @ \cup {step.to}]
      [] step.type = "RemovePeer" ->
            [region EXCEPT !.voters = @ \ {step.from}, !.learners = @ \ {step.from},
                           !.pending = @ \ {step.from}]

\* A region heartbeat that shows the next step of the operator done.
RcStep ==
    /\ rcOp # <<>>
    /\ rcRegion' = applyStep(rcRegion, Head(rcOp))
    /\ rcOp' = Tail(rcOp)
    /\ rcLast' = [rcLast EXCEPT !.done = Append(@, Head(rcOp))]
    /\ UNCHANGED <<rcStore, rcChecks, rcFrame>>

RcFresh ==
    /\ rcOp = <<>>
    /\ rcLast = RcNoLast
    /\ rcChecks = 0

\* Clusters of Up and Offline stores, any of them under the reject-leader
\* label property; the region has its three voters on stores 1 to 3, any of
\* them the leader, and at most one follower pending.
RcStart ==
    /\ RcFresh
    /\ rcStore \in [RcStores -> [state : {"Up", "Offline"}, rejectLeader : BOOLEAN]]
    /\ \E l \in RcRegionStores :
       \E p \in {q \in SUBSET (RcRegionStores \ {l}) : Cardinality(q) <= 1} :
          rcRegion = [voters |-> RcRegionStores, learners |-> {}, leader |-> l,
                      pending |-> p]

\* A server whose replica checker is not called.
RcIdle ==
    /\ RcFresh
    /\ rcStore = [s \in RcStores |-> [state |-> "Up", rejectLeader |-> FALSE]]
    /\ rcRegion = [voters |-> RcRegionStores, learners |-> {}, leader |-> 1,
                   pending |-> {}]

RcNext == Check \/ RcStep

(***************************************************************************)
(*     Store filters as callers use them (server/schedule/filter)          *)
(***************************************************************************)

NumFlStores == 4
MaxFilterCalls == 2
FlStores == 1..NumFlStores
FlRegions == {1, 2}

\* The filters, as the constructors build them.
NoFilter ==
    [type |-> "", TransferLeader |-> FALSE, MoveRegion |-> FALSE, allowUses |-> {},
     stores |-> {}, source |-> NoStore, sources |-> {}, targets |-> {}]
NewStateFilter == [NoFilter EXCEPT !.type = "state-filter"]
NewHealthFilter == [NoFilter EXCEPT !.type = "health-filter"]
StoreStateFilter(transferLeader, moveRegion) ==
    [NoFilter EXCEPT !.type = "store-state-filter",
                     !.TransferLeader = transferLeader, !.MoveRegion = moveRegion]
NewSpecialUseFilter(allowUses) ==
    [NoFilter EXCEPT !.type = "special-use-filter", !.allowUses = allowUses]
NewDistinctScoreFilter(stores, source) ==
    [NoFilter EXCEPT !.type = "distinct-filter", !.stores = stores, !.source = source]
NewExcludedFilter(sources, targets) ==
    [NoFilter EXCEPT !.type = "exclude-filter", !.sources = sources, !.targets = targets]

\* A state filter that also looks at the age of the last heartbeat.
stateFilterTargetAlive(st) == st.state = "Up" /\ ~st.down

\* stateFilter.Source and stateFilter.Target
stateFilterSource(st) == st.state # "Tombstone"
stateFilterTarget(st) == st.state = "Up"

\* StoreStateFilter.Source
StoreStateFilterSource(f, st) ==
    IF st.state = "Tombstone" \/ st.down THEN FALSE
    ELSE IF f.TransferLeader /\ (st.disconnected \/ st.blocked) THEN FALSE
    ELSE IF f.MoveRegion THEN filterMoveRegion(TRUE, st)
    ELSE TRUE

\* A special-use filter without the exception for a store that is low on space.
specialUseFilterSourceStrict(allowUses, st) ==
    st.specialUse \notin (allSpecialUses \ allowUses)

\* specialUseFilter.Source
specialUseFilterSource(allowUses, st) ==
    IF st.lowSpace THEN TRUE
    ELSE st.specialUse \notin (allSpecialUses \ allowUses)

\* Filter.Source and Filter.Target of filter f for store s of cluster cl.
filterSource(f, cl, s) ==
    CASE f.type = "state-filter" -> stateFilterSource(cl[s])
      [] f.type = "health-filter" -> healthFilterTarget(cl[s])
      [] f.type = "store-state-filter" -> StoreStateFilterSource(f, cl[s])
      [] f.type = "special-use-filter" -> specialUseFilterSource(f.allowUses, cl[s])
      [] f.type = "distinct-filter" -> TRUE
      [] f.type = "exclude-filter" -> s \notin f.sources
filterTarget(f, cl, s) ==
    CASE f.type = "state-filter" -> stateFilterTarget(cl[s])
      [] f.type = "health-filter" -> healthFilterTarget(cl[s])
      [] f.type = "store-state-filter" -> StoreStateFilterTarget(f, cl[s])
      [] f.type = "special-use-filter" -> specialUseFilterTarget(f.allowUses, cl[s])
      [] f.type = "distinct-filter" -> distinctScoreFilterTarget(f.stores, f.source, s)
      [] f.type = "exclude-filter" -> excludedFilterTarget(f.targets, s)
filterAccepts(isSource, f, cl, s) ==
    IF isSource THEN filterSource(f, cl, s) ELSE filterTarget(f, cl, s)

\* The loop of Source and Target: [ok, rejected], rejected being the types of
\* the filters whose counter the call increments.
RECURSIVE filterLoop(_, _, _, _, _)
filterLoop(isSource, cl, s, filters, i) ==
    IF i > Len(filters) THEN [ok |-> TRUE, rejected |-> <<>>]
    ELSE IF ~filterAccepts(isSource, filters[i], cl, s)
    THEN [ok |-> FALSE, rejected |-> <<filters[i].type>>]
    ELSE filterLoop(isSource, cl, s, filters, i + 1)

\* A loop that asks every filter and counts each rejection.
filterStoreEvery(isSource, cl, s, filters) ==
    LET no == SelectSeq(filters, LAMBDA f : ~filterAccepts(isSource, f, cl, s))
    IN  [ok |-> no = <<>>, rejected |-> [i \in 1..Len(no) |-> no[i].type]]

\* filter.Source (isSource) and filter.Target
filterStore(isSource, cl, s, filters) == filterLoop(isSource, cl, s, filters, 1)

\* slice.AllOf over the filters, and filterStoresBy.
AllOf(isSource, cl, s, filters) ==
    \A i \in 1..Len(filters) : filterAccepts(isSource, filters[i], cl, s)
SelectStores(isSource, cl, stores, filters) ==
    {s \in stores : AllOf(isSource, cl, s, filters)}

actionOf(isSource) == IF isSource THEN "filter-source" ELSE "filter-target"
FlTypes == {"state-filter", "health-filter", "store-state-filter",
            "special-use-filter", "distinct-filter", "exclude-filter"}
FlKeys == {"filter-source", "filter-target"} \X FlStores \X FlTypes

\* filterCounter.WithLabelValues(action, address, id, scope, type).Inc() for
\* each type of the sequence.
RECURSIVE counterInc(_, _, _, _)
counterInc(counter, action, s, types) ==
    IF types = <<>> THEN counter
    ELSE counterInc([counter EXCEPT ![<<action, s, Head(types)>>] = @ + 1],
                    action, s, Tail(types))

FlNoLast ==
    [op |-> "none", store |-> NoStore, filters |-> <<>>, ok |-> FALSE,
     selected |-> {}, region |-> 0, from |-> NoStore]

\* A call of filter.Source or filter.Target for store s.
FilterStore(isSource, s, filters) ==
    /\ flCalls < MaxFilterCalls
    /\ flCalls' = flCalls + 1
    /\ LET r == filterStore(isSource, flStore, s, filters)
       IN  /\ flCounter' = counterInc(flCounter, actionOf(isSource), s, r.rejected)
           /\ flLast' = [FlNoLast EXCEPT !.op = actionOf(isSource), !.store = s,
                                        !.filters = filters, !.ok = r.ok]
    /\ UNCHANGED <<flStore, flRegion, flFrame>>

\* A call of SelectSourceStores or SelectTargetStores for all stores.
SelectFilterStores(isSource, filters) ==
    /\ flCalls < MaxFilterCalls
    /\ flCalls' = flCalls + 1
    /\ flLast' = [FlNoLast EXCEPT
                     !.op = IF isSource THEN "select-source" ELSE "select-target",
                     !.filters = filters,
                     !.selected = SelectStores(isSource, flStore, FlStores, filters)]
    /\ UNCHANGED <<flStore, flRegion, flCounter, flFrame>>

\* The stores a leader scheduler may move the leader of a region to: the
\* follower stores that pass StoreStateFilter{TransferLeader: true} and the
\* filter excluding the stores of the pending peers.
leaderScheduleTargets(cl, region) ==
    SelectStores(FALSE, cl, region.peers \ {region.leader},
                 <<StoreStateFilter(TRUE, FALSE), NewExcludedFilter({}, region.pending)>>)

\* The regions a leader scheduler takes the leader away from: the label
\* scheduler those led by a store the reject-leader property matches, the
\* evict-leader scheduler those led by its store, the balance-leader
\* scheduler any (its choice by score is left open).
leaderScheduleRegions(kind, cl, regs, evicted) ==
    {r \in FlRegions :
        CASE kind = "label" -> cl[regs[r].leader].rejectLeader
          [] kind = "evict-leader" -> regs[r].leader = evicted
          [] kind = "balance-leader" -> TRUE}

FlSchedulers == {"label", "evict-leader", "balance-leader"}

\* Schedule of a leader scheduler: a TransferLeader operator, or none.
LeaderSchedule(kind, evicted) ==
    /\ flCalls < MaxFilterCalls
    /\ flCalls' = flCalls + 1
    /\ LET found == {<<r, t>> \in FlRegions \X FlStores :
                        /\ r \in leaderScheduleRegions(kind, flStore, flRegion, evicted)
                        /\ t \in leaderScheduleTargets(flStore, flRegion[r])}
       IN  IF found = {}
           THEN flLast' = [FlNoLast EXCEPT !.op = kind]
           ELSE \E x \in found :
                   flLast' = [FlNoLast EXCEPT !.op = kind, !.ok = TRUE,
                                             !.region = x[1], !.store = x[2],
                                             !.from = flRegion[x[1]].leader]
    /\ UNCHANGED <<flStore, flRegion, flCounter, flFrame>>

\* The filter lists of the callers.
FlFilterLists ==
    {<<>>,
     <<NewStateFilter>>, <<NewHealthFilter>>,
     <<StoreStateFilter(TRUE, FALSE)>>, <<StoreStateFilter(FALSE, TRUE)>>,
     <<NewSpecialUseFilter({})>>, <<NewSpecialUseFilter({"hotRegion"})>>,
     <<NewDistinctScoreFilter({1, 2, 3}, 3)>>, <<NewDistinctScoreFilter({1, 3}, 1)>>,
     <<NewStateFilter, StoreStateFilter(TRUE, FALSE)>>,
     <<StoreStateFilter(TRUE, FALSE), NewStateFilter>>,
     <<NewHealthFilter, NewStateFilter, NewSpecialUseFilter({})>>,
     <<NewExcludedFilter({1}, {2}), NewHealthFilter>>}

\* Clusters that show every attribute the filters read.
FlClusters ==
    {<<NormalStore, [NormalStore EXCEPT !.state = "Offline"],
       [NormalStore EXCEPT !.state = "Tombstone"],
       [NormalStore EXCEPT !.down = TRUE, !.disconnected = TRUE]>>,
     <<[NormalStore EXCEPT !.disconnected = TRUE], [NormalStore EXCEPT !.blocked = TRUE],
       [NormalStore EXCEPT !.busy = TRUE], [NormalStore EXCEPT !.rejectLeader = TRUE]>>,
     <<[NormalStore EXCEPT !.pendingOver = TRUE], [NormalStore EXCEPT !.addAvail = FALSE],
       [NormalStore EXCEPT !.snapOver = TRUE], [NormalStore EXCEPT !.removeAvail = FALSE]>>,
     <<[NormalStore EXCEPT !.specialUse = "hotRegion"],
       [NormalStore EXCEPT !.specialUse = "reserved"],
       [NormalStore EXCEPT !.specialUse = "hotRegion", !.lowSpace = TRUE],
       [NormalStore EXCEPT !.lowSpace = TRUE]>>,
     <<[NormalStore EXCEPT !.state = "Offline", !.busy = TRUE],
       [NormalStore EXCEPT !.specialUse = "reserved", !.lowSpace = TRUE],
       NormalStore, [NormalStore EXCEPT !.state = "Offline", !.down = TRUE,
                                        !.disconnected = TRUE]>>}

\* The two regions of the cluster, on stores 1 to 3, led by stores 1 and 2.
FlRegionsStart ==
    [r \in FlRegions |-> [peers |-> {1, 2, 3}, leader |-> r, pending |-> {}]]

FlFresh ==
    /\ flCounter = [k \in FlKeys |-> 0]
    /\ flLast = FlNoLast
    /\ flCalls = 0

FlStart ==
    /\ FlFresh
    /\ flStore \in {[s \in FlStores |-> IF s <= Len(c) THEN c[s] ELSE NormalStore] :
                       c \in FlClusters}
    /\ flRegion = FlRegionsStart

\* Clusters for the leader schedulers: stores 1 to 3 normal, rejected as
\* leader, disconnected or busy, and the peer of region 1 on a follower store
\* pending or not.
FlLeaderStart ==
    /\ FlFresh
    /\ flStore \in
          {cl \in [FlStores -> {NormalStore, [NormalStore EXCEPT !.rejectLeader = TRUE],
                                [NormalStore EXCEPT !.disconnected = TRUE],
                                [NormalStore EXCEPT !.busy = TRUE]}] :
              cl[NumFlStores] = NormalStore}
    /\ \E p \in {{}, {2}, {3}} :
          flRegion = [FlRegionsStart EXCEPT ![1].pending = p]

\* A server whose filters are not called.
FlIdle ==
    /\ FlFresh
    /\ flStore = [s \in FlStores |-> NormalStore]
    /\ flRegion = FlRegionsStart

FlNext ==
    \/ \E src \in BOOLEAN, s \in FlStores, fs \in FlFilterLists : FilterStore(src, s, fs)
    \/ \E src \in BOOLEAN, fs \in FlFilterLists : SelectFilterStores(src, fs)

FlLeaderNext ==
    \/ \E k \in FlSchedulers, e \in FlStores : LeaderSchedule(k, e)
    \/ \E s \in FlStores : FilterStore(FALSE, s, <<StoreStateFilter(TRUE, FALSE)>>)

(***************************************************************************)
(*      TimestampOracle, one access to shared memory per step              *)
(*      (server/tso/tso.go)                                                *)
(***************************************************************************)

\* Bounds of the model.
MaxObjects == 4      \* atomicObjects allocated in one run
MaxGets == 2         \* GetRespTS calls
MaxServeGets == 1    \* GetRespTS calls where the leader loop runs whole terms
MaxResets == 1       \* ResetUserTimestamp calls
MaxUpdates == 1      \* UpdateTimestamp calls
MaxTcClock == 2      \* the system clock reads ClockBase..ClockBase + MaxTcClock
TcSaveInterval == 2  \* t.saveInterval

\* Scaled down from 10.
maxRetryCount == 3

TcClocks == ClockBase..(ClockBase + MaxTcClock)
\* The physical times a user asks ResetUserTimestamp for.
TcPhysicals == {ClockBase + 2, ClockBase + 4, ClockBase + 5, ClockBase + 8}

\* The counts GetRespTS is asked for: none, few, and as many as one physical
\* time can hold.
TcCounts == {0, 1, MaxCount, maxLogical}

\* A nil *atomicObject.
NilObject == 0

\* The physical time t.ts points to; ZeroTime for a nil pointer.
tcPhysical == IF tcCur = NilObject THEN ZeroTime ELSE tcHeap[tcCur].physical

\* current == nil || current.physical == typeutil.ZeroTime
tcUninitialized(p) == IF p = NilObject THEN TRUE ELSE tcHeap[p].physical = ZeroTime

\* checkLease
tcCheckLease == tcLease = "valid"

TcNoRet ==
    [result |-> "none", physical |-> ZeroTime, logical |-> 0, count |-> 0,
     tries |-> 0, unsynced |-> FALSE, issued |-> FALSE,
     prevPhysical |-> ZeroTime, prevLogical |-> 0]

TcNoLast == [op |-> "none", result |-> "none", wrote |-> FALSE]

TcLeaderIdle == [pc |-> "idle", prev |-> NilObject, last |-> ZeroTime, next |-> ZeroTime, updates |-> 0]
TcUserIdle == [pc |-> "idle", prev |-> NilObject, next |-> ZeroTime, wrote |-> FALSE, calls |-> 0]
TcGetIdle == [pc |-> "idle", count |-> 0, i |-> 0, cur |-> NilObject,
              physical |-> ZeroTime, logical |-> 0, unsynced |-> FALSE, calls |-> 0]

\* atomic.StorePointer(&t.ts, ...) and the allocation of its argument.
tcStore(physical) ==
    /\ Len(tcHeap) < MaxObjects
    /\ tcHeap' = Append(tcHeap, [physical |-> physical, logical |-> 0])
    /\ tcCur' = Len(tcHeap) + 1

\* ---- SyncTimestamp, called by a new leader; the in-memory timestamp is
\* ---- nil or was reset when the previous term ended.
SyncSetLease ==
    /\ tcLeader.pc = "idle" /\ tcUninitialized(tcCur)
    /\ tcLease' = "valid"
    /\ tcLeader' = [tcLeader EXCEPT !.pc = "syncLoad"]
    /\ UNCHANGED <<tcHeap, tcCur, tcSaved, tcUser, tcGet, tcRet, tcLast, tcSynced>>
    /\ UNCHANGED tcFrame

SyncLoad(loadOK) ==
    /\ tcLeader.pc = "syncLoad"
    /\ IF loadOK
       THEN /\ tcLeader' = [tcLeader EXCEPT !.pc = "syncSave", !.last = tcSaved]
            /\ UNCHANGED tcLast
       ELSE /\ tcLeader' = [tcLeader EXCEPT !.pc = "idle"]
            /\ tcLast' = [TcNoLast EXCEPT !.op = "sync", !.result = "load"]
    /\ UNCHANGED <<tcHeap, tcCur, tcSaved, tcLease, tcUser, tcGet, tcRet, tcSynced>>
    /\ UNCHANGED tcFrame

SyncSave(now, etcdOK) ==
    /\ tcLeader.pc = "syncSave"
    /\ LET next == SyncNext(now, tcLeader.last)
       IN  IF etcdOK
           THEN /\ tcSaved' = next + TcSaveInterval
                /\ tcLeader' = [tcLeader EXCEPT !.pc = "syncStore", !.next = next]
                /\ UNCHANGED tcLast
           ELSE /\ tcLeader' = [tcLeader EXCEPT !.pc = "idle"]
                /\ tcLast' = [TcNoLast EXCEPT !.op = "sync", !.result = "save"]
                /\ UNCHANGED tcSaved
    /\ UNCHANGED <<tcHeap, tcCur, tcLease, tcUser, tcGet, tcRet, tcSynced>>
    /\ UNCHANGED tcFrame

SyncStore ==
    /\ tcLeader.pc = "syncStore"
    /\ tcStore(tcLeader.next)
    /\ tcLeader' = [tcLeader EXCEPT !.pc = "idle"]
    /\ tcSynced' = TRUE
    /\ tcGet' = [tcGet EXCEPT !.unsynced = FALSE]
    /\ tcLast' = [TcNoLast EXCEPT !.op = "sync", !.result = "stored", !.wrote = TRUE]
    /\ UNCHANGED <<tcSaved, tcLease, tcUser, tcRet>>
    /\ UNCHANGED tcFrame

\* ---- UpdateTimestamp, called by the leader loop between a successful
\* ---- SyncTimestamp and ResetTimestamp.
UpdateLoad ==
    /\ tcLeader.pc = "idle" /\ ~tcUninitialized(tcCur)
    /\ tcLeader.updates < MaxUpdates
    /\ tcLeader' = [tcLeader EXCEPT !.pc = "updNow", !.prev = tcCur, !.updates = @ + 1]
    /\ UNCHANGED <<tcHeap, tcCur, tcSaved, tcLease, tcUser, tcGet, tcRet, tcLast, tcSynced>>
    /\ UNCHANGED tcFrame

\* time.Now(), atomic.LoadInt64(&prev.logical) and the choice of next.
UpdateNow(now) ==
    /\ tcLeader.pc = "updNow"
    /\ LET next == UpdateNext(tcHeap[tcLeader.prev], now)
       IN  IF next = NoTime
           THEN /\ tcLeader' = [tcLeader EXCEPT !.pc = "idle"]
                /\ tcLast' = [TcNoLast EXCEPT !.op = "update", !.result = "kept"]
           ELSE /\ tcLeader' = [tcLeader EXCEPT !.pc = "updSave", !.next = next]
                /\ UNCHANGED tcLast
    /\ UNCHANGED <<tcHeap, tcCur, tcSaved, tcLease, tcUser, tcGet, tcRet, tcSynced>>
    /\ UNCHANGED tcFrame

\* t.lastSavedTime.Load() and, when the window is used up, saveTimestamp.
UpdateSave(etcdOK) ==
    /\ tcLeader.pc = "updSave"
    /\ IF ~NeedSave(tcSaved, tcLeader.next)
       THEN /\ tcLeader' = [tcLeader EXCEPT !.pc = "updStore"]
            /\ UNCHANGED <<tcSaved, tcLast>>
       ELSE IF etcdOK
       THEN /\ tcSaved' = tcLeader.next + TcSaveInterval
            /\ tcLeader' = [tcLeader EXCEPT !.pc = "updStore"]
            /\ UNCHANGED tcLast
       ELSE /\ tcLeader' = [tcLeader EXCEPT !.pc = "idle"]
            /\ tcLast' = [TcNoLast EXCEPT !.op = "update", !.result = "save"]
            /\ UNCHANGED tcSaved
    /\ UNCHANGED <<tcHeap, tcCur, tcLease, tcUser, tcGet, tcRet, tcSynced>>
    /\ UNCHANGED tcFrame

\* atomic.StorePointer(&t.ts, unsafe.Pointer(current))
UpdateStore ==
    /\ tcLeader.pc = "updStore"
    /\ tcStore(tcLeader.next)
    /\ tcLeader' = [tcLeader EXCEPT !.pc = "idle"]
    /\ tcLast' = [TcNoLast EXCEPT !.op = "update", !.result = "stored", !.wrote = TRUE]
    /\ UNCHANGED <<tcSaved, tcLease, tcUser, tcGet, tcRet, tcSynced>>
    /\ UNCHANGED tcFrame

\* ---- ResetTimestamp, called when the leader loop of a term ends.
ResetStore ==
    /\ tcLeader.pc = "idle" /\ tcSynced
    /\ tcStore(ZeroTime)
    /\ tcLeader' = [tcLeader EXCEPT !.pc = "resetLease"]
    /\ UNCHANGED <<tcSaved, tcLease, tcUser, tcGet, tcRet, tcLast, tcSynced>>
    /\ UNCHANGED tcFrame

ResetLease ==
    /\ tcLeader.pc = "resetLease"
    /\ tcLease' = "nil"
    /\ tcSynced' = FALSE
    /\ tcLeader' = [tcLeader EXCEPT !.pc = "idle"]
    /\ tcLast' = [TcNoLast EXCEPT !.op = "reset", !.result = "stored", !.wrote = TRUE]
    /\ UNCHANGED <<tcHeap, tcCur, tcSaved, tcUser, tcGet, tcRet>>
    /\ UNCHANGED tcFrame

\* ---- ResetUserTimestamp(tso), called by the admin API; physical is the
\* ---- physical part of tso.
tcUserReturn(result) ==
    /\ tcUser' = [tcUser EXCEPT !.pc = "idle", !.wrote = FALSE]
    /\ tcLast' = [op |-> "resetUser", result |-> result, wrote |-> tcUser.wrote]

ResetUserCheckLease(physical) ==
    /\ tcUser.pc = "idle" /\ tcUser.calls < MaxResets
    /\ IF tcCheckLease
       THEN /\ tcUser' = [tcUser EXCEPT !.pc = "load", !.next = physical + 1,
                                        !.calls = @ + 1]
            /\ UNCHANGED tcLast
       ELSE /\ tcUser' = [tcUser EXCEPT !.calls = @ + 1]
            /\ tcLast' = [op |-> "resetUser", result |-> "lease", wrote |-> FALSE]
    /\ UNCHANGED <<tcHeap, tcCur, tcSaved, tcLease, tcLeader, tcGet, tcRet, tcSynced>>
    /\ UNCHANGED tcFrame

\* The load of prev and the two checks of the distance to it; with no
\* timestamp in memory yet the dereference of prev panics.
ResetUserLoad ==
    /\ tcUser.pc = "load"
    /\ LET gap == SubTimeByWallClock(tcUser.next, tcPhysical)
       IN  IF tcCur = NilObject THEN tcUserReturn("panic")
           ELSE IF gap <= 3 * updateTimestampGuard THEN tcUserReturn("small")
           ELSE IF gap >= maxResetTSGap THEN tcUserReturn("large")
           ELSE /\ tcUser' = [tcUser EXCEPT !.pc = "save", !.prev = tcCur]
                /\ UNCHANGED tcLast
    /\ UNCHANGED <<tcHeap, tcCur, tcSaved, tcLease, tcLeader, tcGet, tcRet, tcSynced>>
    /\ UNCHANGED tcFrame

ResetUserSave(etcdOK) ==
    /\ tcUser.pc = "save"
    /\ IF etcdOK
       THEN /\ tcSaved' = tcUser.next + TcSaveInterval
            /\ tcUser' = [tcUser EXCEPT !.pc = "cas", !.wrote = TRUE]
            /\ UNCHANGED tcLast
       ELSE /\ tcUserReturn("save")
            /\ UNCHANGED tcSaved
    /\ UNCHANGED <<tcHeap, tcCur, tcLease, tcLeader, tcGet, tcRet, tcSynced>>
    /\ UNCHANGED tcFrame

\* atomic.CompareAndSwapPointer(&t.ts, unsafe.Pointer(prev), unsafe.Pointer(update))
compareAndSwapAlways(cur, prev) == TRUE
compareAndSwap(cur, prev) == cur = prev

ResetUserSwap ==
    /\ tcUser.pc = "cas"
    /\ IF compareAndSwap(tcCur, tcUser.prev)
       THEN /\ tcStore(tcUser.next)
            /\ tcUserReturn("swapped")
       ELSE /\ tcUserReturn("lost")
            /\ UNCHANGED <<tcHeap, tcCur>>
    /\ UNCHANGED <<tcSaved, tcLease, tcLeader, tcGet, tcRet, tcSynced>>
    /\ UNCHANGED tcFrame

\* ---- GetRespTS(count), called by the gRPC service.
tcGetReturn(result, tries) ==
    /\ tcGet' = [tcGet EXCEPT !.pc = "idle"]
    /\ tcRet' = [result |-> result,
                 physical |-> IF result = "ok" THEN tcGet.physical ELSE ZeroTime,
                 logical |-> IF result = "ok" THEN tcGet.logical ELSE 0,
                 count |-> tcGet.count, tries |-> tries,
                 unsynced |-> tcGet.unsynced,
                 issued |-> tcRet.issued \/ tcRet.result = "ok",
                 prevPhysical |-> IF tcRet.result = "ok" THEN tcRet.physical
                                  ELSE tcRet.prevPhysical,
                 prevLogical |-> IF tcRet.result = "ok" THEN tcRet.logical
                                 ELSE tcRet.prevLogical]

GetRespTSCall(count) ==
    /\ tcGet.pc = "idle" /\ tcGet.calls < MaxGets
    /\ IF count = 0
       THEN /\ tcGet' = [tcGet EXCEPT !.calls = @ + 1, !.count = 0, !.i = 0,
                                      !.unsynced = ~tcSynced]
            /\ tcRet' = [tcRet EXCEPT !.result = "count", !.physical = ZeroTime,
                            !.logical = 0, !.count = 0, !.tries = 0,
                            !.unsynced = ~tcSynced,
                            !.issued = tcRet.issued \/ tcRet.result = "ok",
                            !.prevPhysical = IF tcRet.result = "ok" THEN tcRet.physical
                                             ELSE tcRet.prevPhysical,
                            !.prevLogical = IF tcRet.result = "ok" THEN tcRet.logical
                                            ELSE tcRet.prevLogical]
       ELSE /\ tcGet' = [tcGet EXCEPT !.pc = "load", !.calls = @ + 1, !.count = count,
                                      !.i = 0, !.unsynced = ~tcSynced]
            /\ UNCHANGED tcRet
    /\ UNCHANGED <<tcHeap, tcCur, tcSaved, tcLease, tcLeader, tcUser, tcLast, tcSynced>>
    /\ UNCHANGED tcFrame

\* The loop condition and the load of current.
GetRespTSLoad ==
    /\ tcGet.pc = "load"
    /\ IF tcGet.i >= maxRetryCount
       THEN tcGetReturn("retries", tcGet.i)
       ELSE /\ tcGet' = [tcGet EXCEPT !.cur = tcCur,
                            !.pc = IF tcUninitialized(tcCur) THEN "uninitialized"
                                   ELSE "add"]
            /\ UNCHANGED tcRet
    /\ UNCHANGED <<tcHeap, tcCur, tcSaved, tcLease, tcLeader, tcUser, tcLast, tcSynced>>
    /\ UNCHANGED tcFrame

\* The timestamp is not in memory: wait for a running SyncTimestamp while the
\* lease is held, fail otherwise.
GetRespTSUninitialized ==
    /\ tcGet.pc = "uninitialized"
    /\ IF tcCheckLease
       THEN /\ tcGet' = [tcGet EXCEPT !.pc = "load", !.i = @ + 1]
            /\ UNCHANGED tcRet
       ELSE tcGetReturn("uninitialized", tcGet.i + 1)
    /\ UNCHANGED <<tcHeap, tcCur, tcSaved, tcLease, tcLeader, tcUser, tcLast, tcSynced>>
    /\ UNCHANGED tcFrame

\* atomic.AddInt64(&current.logical, int64(count)) and the test of its result.
logicalFitsInclusive(logical) == logical <= maxLogical
logicalFits(logical) == logical < maxLogical

GetRespTSAdd ==
    /\ tcGet.pc = "add"
    /\ LET logical == tcHeap[tcGet.cur].logical + tcGet.count
       IN  /\ tcHeap' = [tcHeap EXCEPT ![tcGet.cur].logical = logical]
           /\ tcGet' = [tcGet EXCEPT !.physical = tcHeap[tcGet.cur].physical,
                           !.logical = logical,
                           !.pc = IF logicalFits(logical) THEN "check" ELSE "load",
                           !.i = IF logicalFits(logical) THEN @ ELSE @ + 1]
    /\ UNCHANGED <<tcCur, tcSaved, tcLease, tcLeader, tcUser, tcRet, tcLast, tcSynced>>
    /\ UNCHANGED tcFrame

\* The last check of the lease before the response is returned.
leaseHeldAtReturnAny == TRUE
leaseHeldAtReturn == tcCheckLease

GetRespTSReturn ==
    /\ tcGet.pc = "check"
    /\ IF leaseHeldAtReturn
       THEN tcGetReturn("ok", tcGet.i + 1)
       ELSE tcGetReturn("lease", tcGet.i + 1)
    /\ UNCHANGED <<tcHeap, tcCur, tcSaved, tcLease, tcLeader, tcUser, tcLast, tcSynced>>
    /\ UNCHANGED tcFrame

\* The leader lease runs out.
TcLeaseExpires ==
    /\ tcLease = "valid"
    /\ tcLease' = "expired"
    /\ UNCHANGED <<tcHeap, tcCur, tcSaved, tcLeader, tcUser, tcGet, tcRet, tcLast, tcSynced>>
    /\ UNCHANGED tcFrame

\* The oracle as NewTimestampOracle leaves it; etcd may hold the time saved by
\* an earlier term.
TcFresh ==
    /\ tcHeap = <<>>
    /\ tcCur = NilObject
    /\ tcLease = "nil"
    /\ tcLeader = TcLeaderIdle
    /\ tcUser = TcUserIdle
    /\ tcGet = TcGetIdle
    /\ tcRet = TcNoRet
    /\ tcLast = TcNoLast
    /\ tcSynced = FALSE

TcStart == TcFresh /\ tcSaved \in {ZeroTime, ClockBase + 1}

TcIdle == TcFresh /\ tcSaved = ZeroTime

\* The leader loop of this member and the expiry of its lease.
TcLeaderNext ==
    \/ SyncSetLease
    \/ \E loadOK \in BOOLEAN : SyncLoad(loadOK)
    \/ \E now \in TcClocks, etcdOK \in BOOLEAN : SyncSave(now, etcdOK)
    \/ SyncStore
    \/ UpdateLoad
    \/ \E now \in TcClocks : UpdateNow(now)
    \/ \E etcdOK \in BOOLEAN : UpdateSave(etcdOK)
    \/ UpdateStore
    \/ ResetStore
    \/ ResetLease
    \/ TcLeaseExpires

\* The goroutine of an admin API request.
TcUserNext ==
    \/ \E physical \in TcPhysicals : ResetUserCheckLease(physical)
    \/ ResetUserLoad
    \/ \E etcdOK \in BOOLEAN : ResetUserSave(etcdOK)
    \/ ResetUserSwap

TcRaceNext == TcLeaderNext \/ TcUserNext

\* One GetRespTS call at a time against the leader loop.
TcServeNext ==
    \/ TcLeaderNext
    \/ \E count \in TcCounts : tcGet.calls < MaxServeGets /\ GetRespTSCall(count)
    \/ GetRespTSLoad
    \/ GetRespTSUninitialized
    \/ GetRespTSAdd
    \/ GetRespTSReturn

\* One term in which etcd answers every request and the lease is kept, with
\* the admin API and the gRPC service running against the leader loop.
TcIssueNext ==
    \/ SyncSetLease
    \/ SyncLoad(TRUE)
    \/ \E now \in TcClocks : SyncSave(now, TRUE)
    \/ SyncStore
    \/ UpdateLoad
    \/ \E now \in TcClocks : UpdateNow(now)
    \/ UpdateSave(TRUE)
    \/ UpdateStore
    \/ \E physical \in TcPhysicals : ResetUserCheckLease(physical)
    \/ ResetUserLoad
    \/ ResetUserSave(TRUE)
    \/ ResetUserSwap
    \/ GetRespTSCall(1)
    \/ GetRespTSLoad
    \/ GetRespTSUninitialized
    \/ GetRespTSAdd
    \/ GetRespTSReturn

(***************************************************************************)
(*                           Specifications                                *)
(***************************************************************************)

TsoInit == TsoStart /\ HotIdle /\ OpcIdle /\ RegIdle /\ LkIdle /\ ScIdle /\ RcIdle /\ FlIdle /\ TcIdle /\ SsIdle

SpecTso == TsoInit /\ [][TsoNext]_vars

HotInit == HotStart /\ TsoIdle /\ OpcIdle /\ RegIdle /\ LkIdle /\ ScIdle /\ RcIdle /\ FlIdle /\ TcIdle /\ SsIdle

SpecHot == HotInit /\ [][HotNext]_vars

HotSolveInit == HotStartWide /\ TsoIdle /\ OpcIdle /\ RegIdle /\ LkIdle /\ ScIdle /\ RcIdle /\ FlIdle /\ TcIdle /\ SsIdle

SpecHotSolve == HotSolveInit /\ [][ScheduleNext]_vars

\* Calls of Schedule whose arguments are recorded, from the narrow clusters
\* and from those with an abnormal region.
HotCallInit == (HotStart \/ HotStartAbnormal) /\ TsoIdle /\ OpcIdle /\ RegIdle /\ LkIdle /\ ScIdle /\ RcIdle /\ FlIdle /\ TcIdle /\ SsIdle

SpecHotCall == HotCallInit /\ [][ScheduleCallNext]_vars

OpcInit == OpcStart /\ TsoIdle /\ HotIdle /\ RegIdle /\ LkIdle /\ ScIdle /\ RcIdle /\ FlIdle /\ TcIdle /\ SsIdle

SpecOpc == OpcInit /\ [][OpcNext]_vars

RegInit == RegStart /\ TsoIdle /\ HotIdle /\ OpcIdle /\ LkIdle /\ ScIdle /\ RcIdle /\ FlIdle /\ TcIdle /\ SsIdle

SpecRegions == RegInit /\ [][RegNext]_vars

SpecRegionsCall == RegInit /\ [][RegCallNext]_vars

LkInit == LkStart /\ TsoIdle /\ HotIdle /\ OpcIdle /\ RegIdle /\ ScIdle /\ RcIdle /\ FlIdle /\ TcIdle /\ SsIdle

SpecLock == LkInit /\ [][LkNext]_vars

ScInit == ScStart /\ TsoIdle /\ HotIdle /\ OpcIdle /\ RegIdle /\ LkIdle /\ RcIdle /\ FlIdle /\ TcIdle /\ SsIdle

SpecScatter == ScInit /\ [][ScNext]_vars

SpecScatterFew == ScInit /\ [][ScFewNext]_vars

RcInit == RcStart /\ TsoIdle /\ HotIdle /\ OpcIdle /\ RegIdle /\ LkIdle /\ ScIdle /\ FlIdle /\ TcIdle /\ SsIdle

SpecReplica == RcInit /\ [][RcNext]_vars

FlInit == FlStart /\ TsoIdle /\ HotIdle /\ OpcIdle /\ RegIdle /\ LkIdle /\ ScIdle /\ RcIdle /\ TcIdle /\ SsIdle

SpecFilter == FlInit /\ [][FlNext]_vars

FlLeaderInit ==
    FlLeaderStart /\ TsoIdle /\ HotIdle /\ OpcIdle /\ RegIdle /\ LkIdle /\ ScIdle /\ RcIdle
        /\ TcIdle /\ SsIdle

SpecLeaderSchedule == FlLeaderInit /\ [][FlLeaderNext]_vars

\* The oracle with its leader loop, one ResetUserTimestamp caller and one
\* GetRespTS caller running concurrently.
TcInit ==
    TcStart /\ TsoIdle /\ HotIdle /\ OpcIdle /\ RegIdle /\ LkIdle /\ ScIdle /\ RcIdle
        /\ FlIdle /\ SsIdle

\* The selectedStores of one engine context, called for two groups.
SsInit ==
    SsStart /\ TsoIdle /\ HotIdle /\ OpcIdle /\ RegIdle /\ LkIdle /\ ScIdle /\ RcIdle
        /\ FlIdle /\ TcIdle

SpecSelected == SsInit /\ [][SsNext]_vars

\* The leader loop against ResetUserTimestamp.
SpecTsoRace == TcInit /\ [][TcRaceNext]_vars

\* The leader loop against GetRespTS.
SpecTsoServe == TcInit /\ [][TcServeNext]_vars

\* All three callers in one term.
SpecTsoIssue == TcInit /\ [][TcIssueNext]_vars

(***************************************************************************)
(*                    Claims about the TimestampOracle                     *)
(***************************************************************************)

\* C2: whenever an UpdateTimestamp call replaces the in-memory timestamp, the
\* new physical time is strictly greater than the physical time the call found
\* in memory, whatever the system clock read (also when it stood still or
\* jumped backwards).
C2_PhysicalIncreases ==
    (tsoLast.op = "update" /\ tsoLast.stored) => ts.physical > tsoLast.prevPhysical

\* The clock did not move past the guard and the logical part was more than
\* half used: the call advanced the physical time by one millisecond.
C2_Witness ==
    /\ tsoLast.op = "update" /\ tsoLast.stored
    /\ ts.physical = tsoLast.prevPhysical + 1

C33_SyncAboveSaved ==
    [][/\ (tsoLast'.op = "sync" /\ tsoLast'.ok) =>
              /\ tsoLast'.stored
              /\ ts'.physical >= etcdTS + updateTimestampGuard
       /\ (tsoLast'.op = "sync" /\ ~tsoLast'.ok) =>
              /\ ~tsoLast'.stored
              /\ ts' = ts /\ lastSavedTime' = lastSavedTime /\ etcdTS' = etcdTS]_vars

\* A term started with the system clock reading exactly the time a previous
\* leader had saved: the installed time is one guard above it.
C33_Witness ==
    /\ tsoLast.op = "sync" /\ tsoLast.stored
    /\ tsoLast.prevEtcd = ClockBase + 2
    /\ tsoLast.prevSaved = ZeroTime
    /\ ts.physical = tsoLast.prevEtcd + updateTimestampGuard
    /\ lastSavedTime = ts.physical + saveInterval

\* C31: when a GetRespTS call returns a timestamp after an earlier call of
\* the same caller returned one, its (physical, logical) pair is greater in
\* lexicographic order, and the count logical values it reserved, which end
\* at its logical part, lie above the logical part of the earlier one when
\* the physical parts are equal.
C31_IssuedIncreasing ==
    (tcRet.result = "ok" /\ tcRet.issued) =>
        \/ tcRet.physical > tcRet.prevPhysical
        \/ /\ tcRet.physical = tcRet.prevPhysical
           /\ tcRet.logical - tcRet.count >= tcRet.prevLogical

\* C32: with ResetUserTimestamp and UpdateTimestamp running concurrently,
\* the step in which either of them installs its timestamp (the store of
\* UpdateTimestamp, the compare-and-swap of ResetUserTimestamp) never lowers
\* the in-memory physical time.
C32_PhysicalNeverLowered ==
    [][(\/ tcLeader.pc = "updStore" /\ tcLeader'.pc = "idle"
        \/ tcUser.pc = "cas" /\ tcUser'.pc = "idle")
       => tcPhysical' >= tcPhysical]_vars

\* C34: a GetRespTS call that started after ResetTimestamp returned (or
\* before the first term) returns a timestamp only if a SyncTimestamp has
\* installed one since, and a call that finds the lease missing or expired
\* at its last check returns an error and no timestamp.
C34_OnlyUnderLease ==
    [][(tcGet.pc # "idle" /\ tcGet'.pc = "idle") =>
          /\ tcGet.unsynced => tcRet'.result # "ok"
          /\ tcLease # "valid" => tcRet'.result # "ok"
          /\ tcRet'.result # "ok" => tcRet'.physical = ZeroTime /\ tcRet'.logical = 0]_vars

\* A term ended with ResetTimestamp, and a call made afterwards was turned
\* away because no timestamp was in memory.
C34_Witness ==
    /\ tcLast.op = "reset"
    /\ tcRet.unsynced /\ tcRet.result = "uninitialized"
    /\ tcLease = "nil" /\ tcPhysical = ZeroTime /\ tcCur # NilObject

\* C36: a timestamp returned by GetRespTS has a logical part of at least
\* count and less than maxLogical; a call for count 0 returns an error at
\* once; every pass of the loop that does not return adds one to the retry
\* counter, which never exceeds maxRetryCount, and the call that finds it
\* used up returns an error, so that a call makes at most maxRetryCount
\* passes.
C36_LogicalInRange ==
    [][/\ tcRet'.result = "ok" =>
              /\ tcRet'.count > 0
              /\ tcRet'.logical >= tcRet'.count
              /\ tcRet'.logical < maxLogical
       /\ tcGet'.i <= maxRetryCount /\ tcRet'.tries <= maxRetryCount
       /\ (tcGet'.pc # tcGet.pc \/ tcGet'.calls # tcGet.calls) =>
              /\ (tcGet.pc = "idle" /\ tcGet'.count = 0) =>
                     tcGet'.pc = "idle" /\ tcRet'.result = "count"
              /\ (tcGet.pc \in {"add", "uninitialized"} /\ tcGet'.pc = "load") =>
                     tcGet'.i = tcGet.i + 1
              /\ (tcGet.pc \in {"add", "uninitialized"}) =>
                     tcGet'.pc \in {"load", "check", "idle"}
              /\ (tcGet.pc = "load" /\ tcGet.i = maxRetryCount) =>
                     tcGet'.pc = "idle" /\ tcRet'.result = "retries"]_vars

\* A call asked for as many timestamps as one physical time holds: every
\* pass pushed the logical part to maxLogical or beyond, and the call gave up
\* after maxRetryCount passes.
C36_Witness ==
    /\ tcRet.result = "retries" /\ tcRet.tries = maxRetryCount
    /\ tcRet.count = maxLogical
    /\ tcCur # NilObject
    /\ tcHeap[tcCur].logical = maxRetryCount * maxLogical

\* C35: the step of ResetUserTimestamp that finds the lease missing or
\* expired, or finds next (the requested physical time plus 1ms) at most
\* 3 * updateTimestampGuard or at least maxResetTSGap ahead of the physical
\* time in memory, ends the call with an error, and the call has changed
\* neither the in-memory timestamp nor the saved time; when the in-memory
\* timestamp is no longer the one the call loaded, its compare-and-swap
\* leaves the timestamp that replaced it in place, after the call has
\* persisted its saved time.
C35_RefusedResetChangesNothing ==
    [][tcUser' # tcUser =>
          LET gap == SubTimeByWallClock(tcUser.next, tcPhysical)
              refused ==
                  \/ tcUser.pc = "idle" /\ ~tcCheckLease
                  \/ /\ tcUser.pc = "load" /\ tcCur # NilObject
                     /\ gap <= 3 * updateTimestampGuard \/ gap >= maxResetTSGap
          IN  /\ refused =>
                    /\ tcUser'.pc = "idle"
                    /\ tcLast'.op = "resetUser"
                    /\ tcLast'.result \in {"lease", "small", "large"}
                    /\ ~tcLast'.wrote
                    /\ tcCur' = tcCur /\ tcHeap' = tcHeap /\ tcSaved' = tcSaved
              /\ (tcUser.pc = "cas" /\ tcCur # tcUser.prev) =>
                    /\ tcLast'.result = "lost" /\ tcLast'.wrote
                    /\ tcCur' = tcCur /\ tcHeap' = tcHeap /\ tcSaved' = tcSaved]_vars

\* An UpdateTimestamp stored its timestamp between the load and the
\* compare-and-swap of a ResetUserTimestamp: the swap failed, the saved time
\* is the one the reset persisted and the timestamp is the update's.
C35_Witness ==
    /\ tcLast = [op |-> "resetUser", result |-> "lost", wrote |-> TRUE]
    /\ tcSaved = tcUser.next + TcSaveInterval
    /\ tcPhysical # ZeroTime /\ tcPhysical < tcUser.next
    /\ tcLeader.updates > 0 /\ tcLeader.pc = "idle"

(***************************************************************************)
(*                 Claims about the hot-region scheduler                   *)
(***************************************************************************)

\* The solver of the given kind that a Schedule call made now, with the
\* limits open, would run.
solverNow(rwTy, opTy) ==
    newBalanceSolver(schedulerAt(pendings, regionPendings, ops, hotNow, TRUE, TRUE),
                     rwTy, opTy)

\* A Schedule call has just registered an operator.
justScheduled == hotLast.op = "schedule" /\ hotLast.sol # NoSol

\* The solver that produced the operator just registered: the scheduler
\* before the operator's influence and its regionPendings entry were added.
solverLast ==
    LET id == Len(ops)
        rc == toResourceType(ops[id].rwTy, ops[id].opTy)
    IN  newBalanceSolver(
            schedulerAt([pendings EXCEPT ![rc] = @ \ {id}],
                        [regionPendings EXCEPT ![ops[id].region] = NoPending],
                        ops, hotNow, TRUE, TRUE),
            ops[id].rwTy, ops[id].opTy)

\* only a leader transfer is pending for region r
onlyTransferPending(rp, r) == rp[r].has /\ rp[r].mp = NoOp /\ rp[r].tl # NoOp

\* C7: a solver never selects a region that has an entry in regionPendings,
\* except that for the peer-move solver a region whose only pending operator
\* is a leader transfer counts as a region without entry: it is selected, and
\* its operator registered, as if no operator were pending for it.
C7_PendingTransferAdmitsPeerMove ==
    \A rwTy \in rwTypes, opTy \in opTypes, r \in Regions :
        LET bs == solverNow(rwTy, opTy)
        IN  bs.rp[r].has =>
               IF opTy = "movePeer" /\ onlyTransferPending(bs.rp, r)
               THEN solve(bs) = solve([bs EXCEPT !.rp[r] = NoPending])
               ELSE \A sol \in solve(bs) : sol.region # r

\* C8: a Schedule call clears the slot of a pending operator exactly when the
\* operator has ended and MaxZombieDuration has elapsed since it ended.
C8_GcAfterZombieDuration ==
    [][hotLast'.op = "schedule" =>
          \A r \in Regions :
             /\ regionPendings[r].mp # NoOp =>
                   ((regionPendings'[r].mp # regionPendings[r].mp)
                      <=> (/\ IsEnd(ops[regionPendings[r].mp])
                           /\ hotNow - ops[regionPendings[r].mp].endTime
                                 >= MaxZombieDuration))
             /\ regionPendings[r].tl # NoOp =>
                   ((regionPendings'[r].tl # regionPendings[r].tl)
                      <=> (/\ IsEnd(ops[regionPendings[r].tl])
                           /\ hotNow - ops[regionPendings[r].tl].endTime
                                 >= MaxZombieDuration))]_vars

\* min-projected rate of store s above SrcToleranceRatio x expected, on the
\* byte and on the key axis
aboveExpected(bs, s) ==
    LET ld == bs.load[s]
    IN  /\ Min(ld.pred.cur.byte, ld.pred.fut.byte) * 100 * ld.storeLen
              > SrcTolerancePct * ld.expByte
        /\ Min(ld.pred.cur.key, ld.pred.fut.key) * 100 * ld.storeLen
              > SrcTolerancePct * ld.expKey

\* C9 as stated: a store is an eligible source if and only if its
\* min-projected byte rate and key rate both strictly exceed
\* SrcToleranceRatio times the expected rate.
C9_SourceIffAboveExpected ==
    \A rwTy \in rwTypes, opTy \in opTypes :
        LET bs == solverNow(rwTy, opTy)
        IN  filterSrcStores(bs) = {s \in Stores : aboveExpected(bs, s)}

\* C9, amended: a store is an eligible source if and only if it has at least
\* one hot peer and its min-projected byte rate and key rate both strictly
\* exceed SrcToleranceRatio times the expected rate; the source of every
\* operator the scheduler registers is such a store.
C9_SourceIffHotAndAboveExpected ==
    /\ \A rwTy \in rwTypes, opTy \in opTypes :
          LET bs == solverNow(rwTy, opTy)
          IN  filterSrcStores(bs)
                 = {s \in Stores : bs.load[s].hot # {} /\ aboveExpected(bs, s)}
    /\ justScheduled =>
          /\ solverLast.load[hotLast.sol.src].hot # {}
          /\ aboveExpected(solverLast, hotLast.sol.src)

\* An operator was registered from an eligible source while another store,
\* as far above the expectation, was passed over for having no hot peer.
C9_Witness ==
    /\ justScheduled
    /\ \E s \in Stores :
          /\ s # hotLast.sol.src
          /\ aboveExpected(solverLast, s)
          /\ solverLast.load[s].hot = {}

\* C10: the destination of every operator the scheduler registers passed
\* every destination filter of its solver (store state, excluded stores for a
\* peer move, health, special use, isolation for a peer move) and was picked
\* among the solver's candidates, and its max-projected byte rate and key
\* rate times DstToleranceRatio are strictly below the expected rates.
C10_DestinationFilteredAndBelowExpected ==
    justScheduled =>
        LET bs == solverLast
            r == hotLast.sol.region
            d == hotLast.sol.dst
            st == storeInfo[d]
            ld == bs.load[d]
        IN  /\ st.state = "Up" /\ ~st.down /\ ~st.busy
            /\ st.specialUse # "reserved"
            /\ IF bs.opTy = "movePeer"
               THEN /\ d \notin regionInfo[r].stores
                    /\ ~st.pendingOver /\ st.addAvail /\ ~st.snapOver
                    /\ DistinctScore(regionInfo[r].stores \ {hotLast.sol.src}, d)
                          >= DistinctScore(regionInfo[r].stores \ {hotLast.sol.src},
                                           hotLast.sol.src)
               ELSE /\ d \in regionInfo[r].stores /\ d # regionInfo[r].leader
                    /\ ~st.disconnected /\ ~st.blocked /\ ~st.rejectLeader
            /\ Max(ld.pred.cur.byte, ld.pred.fut.byte) * DstTolerancePct * ld.storeLen
                  < ld.expByte * 100
            /\ Max(ld.pred.cur.key, ld.pred.fut.key) * DstTolerancePct * ld.storeLen
                  < ld.expKey * 100

\* A second operator was registered towards the destination of a running one:
\* the max-projected load of the destination was its predicted load.
C10_Witness ==
    /\ justScheduled
    /\ Len(ops) = 2 /\ ops[1].status = "STARTED"
    /\ ops[1].to = ops[2].to
    /\ toResourceType(ops[1].rwTy, ops[1].opTy) = toResourceType(ops[2].rwTy, ops[2].opTy)

\* The decrease ratio (dst + peer) / (src - peer) of a move, the divisor
\* being 1 when src - peer is not positive, is at most pct percent. Rates of
\* stores are in units of 1 / MaxZombieDuration.
decRatioWithin(srcRate, dstRate, peerRate, pct) ==
    LET peer == MaxZombieDuration * peerRate
        left == IF srcRate - peer <= 0 THEN MaxZombieDuration ELSE srcRate - peer
    IN  (dstRate + peer) * 100 <= pct * left

\* The triples a solver may rank.
rankTriples == Stores \X Regions \X Stores

\* C11: for a solver other than write + transfer-leader the rank of a triple
\* is -3 when the peer is hot on both axes and both decrease ratios are
\* within GreatDecRatio; else -2 when the byte decrease ratio is within
\* MinorGreatDecRatio, the key rate is hot and the key decrease ratio is
\* within GreatDecRatio; else -1 when the byte rate is hot and the byte
\* decrease ratio is within GreatDecRatio; else 0. For write +
\* transfer-leader it is -1 exactly when src.key >= dst.key + peer.key, and 0
\* otherwise.
C11_ProgressiveRankClasses ==
    \A rwTy \in rwTypes, opTy \in opTypes, t \in rankTriples :
        LET bs == solverNow(rwTy, opTy)
            srcLd == minLoadPred(bs.load[t[1]].pred)
            dstLd == maxLoadPred(bs.load[t[3]].pred)
            peer == bs.regs[t[2]]
            rank == calcProgressiveRank(bs, t[1], t[2], t[3])
            byteHot == peer.byte > MinHotByteRate
            keyHot == peer.key >= MinHotKeyRate
            byteGreat == decRatioWithin(srcLd.byte, dstLd.byte, peer.byte, GreatDecPct)
            byteMinor == decRatioWithin(srcLd.byte, dstLd.byte, peer.byte, MinorGreatDecPct)
            keyGreat == decRatioWithin(srcLd.key, dstLd.key, peer.key, GreatDecPct)
            best == byteHot /\ byteGreat /\ keyHot /\ keyGreat
            good == byteMinor /\ keyHot /\ keyGreat
            fair == byteHot /\ byteGreat
        IN  IF rwTy = "write" /\ opTy = "transferLeader"
            THEN /\ rank \in {-1, 0}
                 /\ (rank = -1) <=>
                        (srcLd.key >= dstLd.key + MaxZombieDuration * peer.key)
            ELSE /\ rank \in {-3, -2, -1, 0}
                 /\ (rank = -3) <=> best
                 /\ (rank = -2) <=> (~best /\ good)
                 /\ (rank = -1) <=> (~best /\ ~good /\ fair)

\* The ranks a solver gives to the triples.
ranksOf(bs) == {calcProgressiveRank(bs, t[1], t[2], t[3]) : t \in rankTriples}

\* The solvers other than write + transfer-leader rank triples in every
\* class, and the write + transfer-leader solver in both of its classes.
C11_Witness ==
    /\ UNION {ranksOf(solverNow(rwTy, opTy)) :
                 rwTy \in rwTypes, opTy \in {"movePeer"}} = {-3, -2, -1, 0}
    /\ ranksOf(solverNow("write", "transferLeader")) = {-1, 0}

\* The choices of hot peers filterHotPeers may return to a solver, one set
\* per source store.
hotPeerChoices(bs) ==
    LET srcs == filterSrcStores(bs)
        peers == [s \in srcs |-> bsFilterHotPeers(bs, s)]
    IN  {hp \in [srcs -> UNION {peers[s] : s \in srcs}] : \A s \in srcs : hp[s] \in peers[s]}

\* C12: in whatever order solve walks the stores and the peers, the solution
\* it ends with has a negative rank and no evaluated triple for which an
\* operator is built has a smaller rank; it ends without solution only when
\* no evaluated triple of negative rank yields an operator. The solution of
\* every registered operator has a negative rank.
C12_SmallestRankWins ==
    /\ \A rwTy \in rwTypes, opTy \in opTypes :
          LET bs == solverNow(rwTy, opTy)
          IN  \A hp \in hotPeerChoices(bs) :
                 LET evaluated == solveEvaluated(bs, hp)
                     buildable == {t \in evaluated : t.built /\ t.sol.rank < 0}
                 IN  \A best \in solveLoop(evaluated, NoSol) :
                        IF best = NoSol THEN buildable = {}
                        ELSE /\ best.rank < 0
                             /\ \E t \in buildable : t.sol = best
                             /\ \A t \in buildable : t.sol.rank >= best.rank
    /\ justScheduled => hotLast.sol.rank < 0

\* The ranks of the triples a solver evaluates and builds an operator for.
builtRanks(bs) ==
    UNION {{t.sol.rank : t \in {u \in solveEvaluated(bs, hp) : u.built}} :
              hp \in hotPeerChoices(bs)}

\* An operator was registered whose solver had evaluated, and could have
\* built an operator for, a triple of a greater negative rank as well.
C12_Witness ==
    /\ justScheduled
    /\ \E k \in builtRanks(solverLast) : k < 0 /\ k > hotLast.sol.rank

\* C13: for every solver and every source store, filterHotPeers returns at
\* most MaxPeerNumber hot peers of the store, all of them hot peers of the
\* store without entry in regionPendings.
C13_AtMostMaxPeerNumber ==
    \A rwTy \in rwTypes, opTy \in opTypes, src \in Stores :
        LET bs == solverNow(rwTy, opTy)
        IN  \A ret \in bsFilterHotPeers(bs, src) :
               /\ ret \subseteq {r \in bs.load[src].hot : ~bs.rp[r].has}
               /\ Cardinality(ret) <= MaxPeerNumber

\* The statuses of an operator.
OpStatuses == EndStatuses \cup {"CREATED", "STARTED"}

\* C14: the weight of an operator, whatever its status and the time it
\* reached it, is between 0 and 1; it is 1 for an operator without end
\* status, 0 for an expired, timed-out, cancelled or replaced one, and for a
\* successful one 1 - zombie / MaxZombieDuration until MaxZombieDuration
\* after SUCCESS was reached and 0 from then on. Weights are in units of
\* 1 / MaxZombieDuration.
C14_PendingWeight ==
    \A i \in 1..Len(ops), st \in OpStatuses, reached \in 0..hotNow :
        LET op == [ops[i] EXCEPT !.status = st, !.endTime = reached]
            w == calcPendingWeight(op, hotNow)
            zombie == hotNow - reached
        IN  /\ w \in 0..MaxZombieDuration
            /\ st \notin EndStatuses => w = MaxZombieDuration
            /\ st \in {"EXPIRED", "TIMEOUT", "CANCELED", "REPLACED"} => w = 0
            /\ st = "SUCCESS" => w = Max(0, MaxZombieDuration - zombie)

\* A Schedule call weighed a successful operator that was part of its
\* zombie duration past SUCCESS.
C14_Witness ==
    /\ hotLast.op = "schedule"
    /\ \E i \in 1..Len(ops) :
          /\ ops[i].status = "SUCCESS"
          /\ calcPendingWeight(ops[i], hotNow) \in 1..(MaxZombieDuration - 1)

\* What the solver of the given kind could return to the call recorded in
\* hotCall', run on the scheduler the call found.
solveOfCall(opTy) ==
    solve(newBalanceSolver(
              schedulerAt(pendings, regionPendings, ops, hotNow,
                          hotCall'.hotOK, hotCall'.leaderOK),
              hotCall'.typ, opTy))

\* The step is a Schedule call that ended with an operator of the given kind.
scheduled(opTy) == hotLast'.op = "schedule" /\ hotLast'.sol.opTy = opTy

\* C15: a Schedule call on the read perspective returns a peer movement only
\* when the leader-transfer solver produced no operator; a call on the write
\* perspective that tries peer movement first returns a leader transfer only
\* when the peer solver produced no operator, and a call in the other branch
\* never returns a peer movement; a call returns no operator only when no
\* solver it tries yields one, and then it registers nothing.
C15_SolverOrder ==
    [][LET sol == hotLast'.sol
           tl == solveOfCall("transferLeader")
           mp == solveOfCall("movePeer")
       IN  /\ (hotCall'.typ = "read" /\ scheduled("movePeer"))
                  => (NoSol \in tl /\ sol \in mp)
           /\ (hotCall'.typ = "read" /\ scheduled("transferLeader"))
                  => sol \in tl
           /\ (hotCall'.typ = "write" /\ hotCall'.peerFirst
                  /\ scheduled("transferLeader"))
                  => (NoSol \in mp /\ sol \in tl)
           /\ (hotCall'.typ = "write" /\ hotCall'.peerFirst /\ scheduled("movePeer"))
                  => sol \in mp
           /\ (hotCall'.typ = "write" /\ ~hotCall'.peerFirst)
                  => (~scheduled("movePeer")
                      /\ (scheduled("transferLeader") => sol \in tl))
           /\ scheduled("none")
                  => /\ NoSol \in tl
                     /\ (hotCall'.typ = "read" \/ hotCall'.peerFirst) => NoSol \in mp
                     /\ ops' = ops
      ]_vars

\* A read call whose leader solver was allowed to run has returned a peer
\* movement.
C15_Witness ==
    /\ hotLast.op = "schedule"
    /\ hotCall.typ = "read"
    /\ hotCall.leaderOK
    /\ hotLast.sol.opTy = "movePeer"

\* The stores the balance-region scheduler accepts as target of a peer, as
\* far as the special-use filter decides: it builds the filter without
\* allowed uses.
balanceRegionTargets ==
    {s \in Stores : specialUseFilterTarget({}, storeInfo[s])}

\* The solver bs in a cluster where store s carries the special-use label use.
withSpecialUse(bs, s, use) == [bs EXCEPT !.stores[s].specialUse = use]

abnormal(r) == ~regionInfo[r].healthy \/ ~IsRegionReplicated(regionInfo[r])

\* C17: the scheduler registers no operator for a region that is short of a
\* replica, has a down peer or has no leader, and no solver returns such a
\* region, however hot it is; a call registers no leader transfer when
\* allowBalanceLeader fails, that is when the leader-schedule limit or the
\* hot-region-schedule limit is reached.
C17_AbnormalRegionsAndLimits ==
    /\ \A i \in 1..Len(ops) : ~abnormal(ops[i].region)
    /\ \A rwTy \in rwTypes, opTy \in opTypes :
          \A sol \in solve(solverNow(rwTy, opTy)) \ {NoSol} : ~abnormal(sol.region)
    /\ (hotLast.op = "schedule" /\ hotLast.sol.opTy = "transferLeader")
          => (hotCall.leaderOK /\ hotCall.hotOK)

\* A call with the limits open has passed over an abnormal hot region on the
\* most loaded store and registered an operator for the other region.
C17_Witness ==
    /\ justScheduled
    /\ hotCall.hotOK /\ hotCall.leaderOK
    /\ \E r \in Regions :
          /\ abnormal(r)
          /\ regionInfo[r].leader = 1
          /\ regionInfo[r].byte = HotRate
          /\ hotLast.sol.region # r

\* C37: a Schedule call that returns an operator has registered it: the
\* operator's region had no regionPendings entry when the solver ran, and on
\* return the entry of the region holds the operator in the slot of its
\* operation type and nothing in the other slot, and the operator's influence
\* is in the pendings set of its resource type and of no other; a call that
\* returns no operator leaves pendings and regionPendings as the clean-up at
\* its start left them and builds no operator.
C37_ReturnedOperatorRegistered ==
    [][hotLast'.op = "schedule" =>
          LET rp == gcRegionPendings(regionPendings, ops, hotNow)
              id == Len(ops')
          IN  IF hotLast'.sol # NoSol
              THEN /\ id = Len(ops) + 1
                   /\ ops'[id].region = hotLast'.sol.region
                   /\ ops'[id].opTy = hotLast'.sol.opTy
                   /\ ~rp[ops'[id].region].has
                   /\ regionPendings'[ops'[id].region] =
                         [has |-> TRUE,
                          mp |-> IF ops'[id].opTy = "movePeer" THEN id ELSE NoOp,
                          tl |-> IF ops'[id].opTy = "transferLeader" THEN id ELSE NoOp]
                   /\ \A r \in Regions \ {ops'[id].region} :
                          regionPendings'[r] = rp[r]
                   /\ \A rc \in resourceTypes :
                          id \in pendings'[rc]
                             <=> rc = toResourceType(ops'[id].rwTy, ops'[id].opTy)
              ELSE /\ ops' = ops
                   /\ regionPendings' = rp
                   /\ \A rc \in resourceTypes :
                          pendings'[rc] = pendingsKept(pendings[rc], ops, hotNow)]_vars

\* A second operator was registered while the first was still pending: the
\* two regions have one entry each, one for a peer move and one for a leader
\* transfer.
C37_Witness ==
    /\ justScheduled /\ Len(ops) = 2
    /\ ops[1].region # ops[2].region
    /\ ops[1].opTy # ops[2].opTy
    /\ regionPendings[ops[1].region].has /\ regionPendings[ops[2].region].has
    /\ \A id \in 1..2 : id \in pendings[toResourceType(ops[id].rwTy, ops[id].opTy)]

\* C38: when the gcRegionPendings pass of a Schedule call deletes the entry
\* of a region, calcPendingWeight of every operator the entry held is 0 at
\* that time.
C38_ReleasedWithoutWeight ==
    [][hotLast'.op = "schedule" =>
          \A r \in Regions :
             (/\ regionPendings[r].has
              /\ ~gcRegionPendings(regionPendings, ops, hotNow)[r].has) =>
                 /\ regionPendings[r].mp # NoOp =>
                       calcPendingWeight(ops[regionPendings[r].mp], hotNow) = 0
                 /\ regionPendings[r].tl # NoOp =>
                       calcPendingWeight(ops[regionPendings[r].tl], hotNow) = 0]_vars

(***************************************************************************)
(*                 Claims about the operator controller                    *)
(***************************************************************************)

\* The operators of region r that are live.
liveOperators(r) ==
    {i \in 1..Len(opcOps) : opcOps[i].region = r /\ opcOps[i].status \in LiveStatuses}

\* C1: a region never has more than one live operator, and the live one is
\* the operator the controller keeps for the region; when an operator is
\* admitted for a region that had a live operator, the new one has the higher
\* priority and the prior one has ended with status Replaced in the same
\* step, so the two are never live together.
C1_OneLiveOperatorPerRegion ==
    /\ \A r \in OpcRegions :
          /\ Cardinality(liveOperators(r)) <= 1
          /\ liveOperators(r) = {opcMap[r]} \ {NoOperator}
    /\ (opcLast.op = "add" /\ opcLast.admitted /\ opcLast.prior # NoOperator) =>
          /\ opcOps[opcLast.prior].status = "REPLACED"
          /\ opcOps[opcLast.prior].priority < opcOps[opcLast.id].priority
          /\ liveOperators(opcLast.region) = {opcLast.id}

\* An operator was just admitted for a region whose prior operator was live.
C1_Witness ==
    /\ opcLast.op = "add" /\ opcLast.admitted /\ opcLast.prior # NoOperator
    /\ opcOps[opcLast.id].status = "STARTED"
    /\ opcOps[opcLast.prior].region = opcOps[opcLast.id].region

\* C5: no step of the controller lowers the step index of an operator; a
\* heartbeat that carries the configuration of the previous heartbeat of the
\* region changes neither the operators (no step is advanced again), nor the
\* tokens of the stores, nor the history; and the history counts every
\* completed operator once.
C5_StepAdvanceMonotoneIdempotent ==
    [][/\ \A i \in 1..Len(opcOps) : opcOps'[i].step >= opcOps[i].step
       /\ opcLast'.replay =>
              /\ opcOps' = opcOps
              /\ opcTokens' = opcTokens
              /\ opcHistory' = opcHistory
       /\ opcHistory' =
              Cardinality({i \in 1..Len(opcOps') : opcOps'[i].status = "SUCCESS"})]_vars

\* The heartbeat of an operator that is past its first step and still holds
\* a token was replayed, after another operator had completed.
C5_Witness ==
    /\ opcLast.replay /\ opcLast.id # NoOperator
    /\ opcOps[opcLast.id].status = "STARTED"
    /\ opcOps[opcLast.id].step > 1
    /\ tokensHeld(opcOps[opcLast.id], opcOps[opcLast.id].step) # {}
    /\ opcHistory = 1

(***************************************************************************)
(*                       Claims about RegionsInfo                          *)
(***************************************************************************)

\* The stored regions, as GetRegions returns them.
GetRegions == {regions[i] : i \in {j \in RegionIDs : regions[j] # NoRegion}}

\* C6: after every SetRegion the subtrees agree with the stored regions: for
\* every store the size of its leader, follower, learner and pending-peer
\* subtree is the number of stored regions that have the store in that role,
\* and the items of the region tree are exactly the stored regions.
C6_SubTreesMatchRegions ==
    /\ \A s \in Stores :
          /\ Cardinality(leaders[s]) =
                 Cardinality({o \in GetRegions : o.leader = s})
          /\ Cardinality(followers[s]) =
                 Cardinality({o \in GetRegions : s \in GetFollowers(o)})
          /\ Cardinality(learners[s]) =
                 Cardinality({o \in GetRegions : s \in o.learners})
          /\ Cardinality(pendingPeers[s]) =
                 Cardinality({o \in GetRegions : s \in o.pendingPeers})
    /\ tree = {treeItem(o) : o \in GetRegions}

\* A SetRegion of a known region changed its range and its peers' roles and
\* evicted a stored region that the new range overlaps; the region has a
\* learner and a pending peer.
C6_Witness ==
    /\ regLast.op = "set" /\ regLast.known /\ regLast.moved /\ regLast.evicted >= 1
    /\ \E o \in GetRegions : o.learners # {} /\ o.pendingPeers # {}

(***************************************************************************)
(*                Claims about the hot scheduler's lock                    *)
(***************************************************************************)

\* The functions that take the scheduler's lock.
lockedFunctions == {"Schedule", "GetHotWriteStatus", "copyPendingInfluence"}

\* What an accessor call has read of stLoadInfos so far is the work of one
\* Schedule call, and that call has finished.
snapshotWhole(a) ==
    /\ lkAcc[a].pc = "leader"
          => (lkAcc[a].leader = lkState.writeLeader
              /\ lkState.writeLeader = lkState.writePeer)
    /\ lkAcc[a].pc = "returned" => lkAcc[a].leader = lkAcc[a].peer

allEligible ==
    /\ scStoreInfo = [s \in ScStores |-> NormalStore]
    /\ scZone = [s \in ScStores |-> NoLabel]

\* |count - K * R / N| <= 1, for K regions scattered over N stores
withinOne(count, K, N) ==
    /\ count * N - K * ScReplicas <= N
    /\ K * ScReplicas - count * N <= N

\* C19: with the one group and ScReplicas peers per region, after any number
\* K of regions scattered over the N eligible stores, the placement count of
\* every store is within one of K * ScReplicas / N.
C19_BalancedCounts ==
    allEligible =>
        \A s \in ScStores : withinOne(scCount[s], scScattered, NumScStores)

\* The stores that pass every filter as target of the peer the loop turned
\* to: outside the region, in order for a new peer, not busy, not selected in
\* the group, still available, and passing the isolation guard.
passingCandidates(regionStores, found) ==
    {s \in found.stores :
        /\ s \notin regionStores
        /\ s \notin found.selected
        /\ scStoreInfo[s].state = "Up" /\ ~scStoreInfo[s].down
        /\ ~scStoreInfo[s].busy /\ ~scStoreInfo[s].pendingOver
        /\ scStoreInfo[s].addAvail /\ ~scStoreInfo[s].snapOver
        /\ scoreGuardTarget(scZone, regionStores, found.peer, s)}

\* C20: a Scatter call keeps a peer on its store when the store is not yet
\* selected in the group; otherwise the peer goes to a candidate that passes
\* every filter, the isolation guard included, and whose placement count in
\* the group is the smallest among such candidates, whichever it is among
\* those of equal count; with no such candidate the peer stays.
C20_KeepOrReplace ==
    scLast.op = "scatter" =>
        \A i \in 1..Len(scLast.peers) :
            LET found == scLast.trace[i]
                target == scLast.targets[i]
                regionStores == Range(scLast.peers)
                candidates == passingCandidates(regionStores, found)
            IN  /\ found.peer = scLast.peers[i]
                /\ IF found.peer \notin found.selected \/ candidates = {}
                   THEN target = found.peer
                   ELSE /\ target \in candidates
                        /\ \A o \in candidates : found.count[target] <= found.count[o]

\* A peer whose store was selected already went to one of two candidates of
\* equal count, while a third store with a greater count passed the filters
\* too.
C20_Witness ==
    /\ scLast.op = "scatter"
    /\ \E i \in 1..Len(scLast.peers) :
          LET found == scLast.trace[i]
              target == scLast.targets[i]
              candidates == passingCandidates(Range(scLast.peers), found)
          IN  /\ found.peer \in found.selected
              /\ target # found.peer
              /\ \E o \in candidates \ {target} : found.count[o] = found.count[target]
    /\ \E i \in 1..Len(scLast.peers) :
          LET found == scLast.trace[i]
          IN  /\ found.peer \in found.selected
              /\ scLast.targets[i] = found.peer

\* C21: a Scatter call places the leader on a store of the region's target
\* peers whose leader count in the group is the smallest among them, and
\* adds exactly one to that store's leader count; no other leader count
\* changes.
C21_LeaderOnSmallestCount ==
    [][scLast'.op = "scatter" =>
          LET targets == Range(scLast'.targets)
              l == scLast'.leader
          IN  /\ l \in targets
              /\ \A o \in targets : scLeaderCount[l] <= scLeaderCount[o]
              /\ scLeaderCount'[l] = scLeaderCount[l] + 1
              /\ \A o \in ScStores \ {l} : scLeaderCount'[o] = scLeaderCount[o]
      ]_vars

\* The leader went to a target peer that had led fewer regions of the group
\* than another target peer of the region.
C21_Witness ==
    /\ scLast.op = "scatter"
    /\ \E o \in Range(scLast.targets) \ {scLast.leader} :
          scLeaderCount[scLast.leader] <= scLeaderCount[o]
    /\ scScattered = MaxScatter

\* C22: with checkExist, put of a store placed since the last reset returns
\* false and leaves the placed set and the counts as they are, and put of any
\* other store returns true, adds the store to the placed set and one to its
\* count, leaving the other counts alone; without checkExist put returns
\* true for every store, placed or not, keeps no placed set and adds one to
\* the store's count.
C22_PutOncePerRound ==
    \A id \in ScStores :
        LET peer == selectedStoresPut(TRUE, scSelected, scCount, id)
            leader == selectedStoresPut(FALSE, {}, scLeaderCount, id)
            again == selectedStoresPut(FALSE, leader.placed, leader.count, id)
        IN  /\ peer.ok <=> id \notin scSelected
            /\ ~peer.ok => (peer.placed = scSelected /\ peer.count = scCount)
            /\ peer.ok => /\ peer.placed = scSelected \cup {id}
                          /\ peer.count[id] = scCount[id] + 1
                          /\ \A o \in ScStores \ {id} : peer.count[o] = scCount[o]
            /\ leader.ok /\ again.ok
            /\ leader.placed = {} /\ again.placed = {}
            /\ again.count[id] = scLeaderCount[id] + 2
            /\ \A o \in ScStores \ {id} : again.count[o] = scLeaderCount[o]

\* Some stores were placed since the last reset and others were not, a store
\* counted before the reset among them; one store has led two regions.
C22_Witness ==
    /\ scSelected # {}
    /\ \E s \in ScStores \ scSelected : scCount[s] > 0
    /\ \E s \in ScStores : scLeaderCount[s] >= 2

\* C23: a Scatter call for a region that is short of a replica or has no
\* leader is refused, and only such a call is; a refused call builds no
\* operator and leaves the selected stores, the placement counts and the
\* leader counts of the group as they were.
C23_RefusedLeavesState ==
    [][/\ (scLast'.op = "refused")
             <=> (Len(scLast'.peers) # ScReplicas \/ scLast'.from = NoStore)
       /\ scLast'.op = "refused"
             => /\ scLast'.targets = <<>> /\ scLast'.leader = NoStore
                /\ UNCHANGED <<scSelected, scCount, scLeaderCount, scScattered>>
      ]_vars

\* A region without leader was refused by a scatterer that had selected and
\* counted stores before.
C23_Witness ==
    /\ scLast.op = "refused"
    /\ Len(scLast.peers) = ScReplicas /\ scLast.from = NoStore
    /\ scSelected # {} /\ scScattered >= 2
    /\ \E s \in ScStores : scLeaderCount[s] > 0

\* C39: the target peers of a scattered region are on as many stores as the
\* region has peers: no two peers get the same target store, and a peer that
\* moves goes to a store that holds no peer of the region, also in a call
\* that resets the selected stores of the group between two peers.
C39_TargetsOnStoresOfTheirOwn ==
    scLast.op = "scatter" =>
        /\ Len(scLast.targets) = Len(scLast.peers)
        /\ Cardinality(Range(scLast.targets)) = Len(scLast.peers)
        /\ \A i \in 1..Len(scLast.peers) :
               scLast.targets[i] # scLast.peers[i]
                   => scLast.targets[i] \notin Range(scLast.peers)

\* A call moved a peer to another store and then, with no store left for
\* the next peer, reset the selected stores.
C39_Witness ==
    /\ scLast.op = "scatter"
    /\ \E i, j \in 1..Len(scLast.peers) :
          /\ i < j
          /\ scLast.targets[i] # scLast.peers[i]
          /\ scLast.trace[j].reset
          /\ scLast.targets[i] \in scLast.trace[j].stores

\* C40: reset on a selectedStores with checkExist empties the set of stores
\* put since the last reset for every group, and without checkExist it
\* changes nothing; in both cases the counts of groupDistribution stay as they
\* are; no put and no reset lowers a count of any group.
C40_ResetClearsEveryGroup ==
    [][/\ (ssCalls' # ssCalls /\ ssLast'.op = "reset") =>
              /\ ssGroupDistribution' = ssGroupDistribution
              /\ IF ssCheckExist
                 THEN \A g \in SsGroups : ssStores'[g] = {}
                 ELSE ssStores' = ssStores
       /\ \A g \in SsGroups, s \in SsStores :
              ssGroupDistribution'[g][s] >= ssGroupDistribution[g][s]]_vars

\* Stores had been put in every group; the reset forgot them all and kept
\* their counts.
C40_Witness ==
    /\ ssLast.op = "reset" /\ ssCheckExist
    /\ \A g \in SsGroups :
          /\ ssLast.before[g] # {}
          /\ ssStores[g] = {}
          /\ \A s \in ssLast.before[g] : ssGroupDistribution[g][s] > 0

(***************************************************************************)
(*                        Claims: replica checker                          *)
(***************************************************************************)

rejecting(isSource, fs, s) ==
    {i \in 1..Len(fs) : ~filterAccepts(isSource, fs[i], flStore, s)}

\* C25: filter.Source and filter.Target accept a store exactly when every
\* filter of the list accepts it, and so do SelectSourceStores and
\* SelectTargetStores for each store they keep; a rejecting call adds one to
\* the counter of the first filter of the list that rejects the store and to
\* no other counter, an accepting call and the Select functions change no
\* counter, and the empty list accepts every store.
C25_AllOfFirstReject ==
    [][LET isSource == flLast'.op \in {"filter-source", "select-source"}
           fs == flLast'.filters
       IN  /\ flLast'.op \in {"filter-source", "filter-target"} =>
                 LET s == flLast'.store
                     rej == rejecting(isSource, fs, s)
                     first == CHOOSE i \in rej : \A j \in rej : i <= j
                 IN  /\ flLast'.ok <=> rej = {}
                     /\ fs = <<>> => flLast'.ok
                     /\ \A k \in FlKeys :
                           flCounter'[k] =
                              flCounter[k] +
                              (IF rej # {} /\ k = <<flLast'.op, s, fs[first].type>>
                               THEN 1 ELSE 0)
           /\ flLast'.op \in {"select-source", "select-target"} =>
                 /\ flLast'.selected
                       = {s \in FlStores : rejecting(isSource, fs, s) = {}}
                 /\ fs = <<>> => flLast'.selected = FlStores
                 /\ flCounter' = flCounter
      ]_vars

\* Target was called twice with the state filter before the store-state
\* filter for an Offline store, which both reject: the counter of the state
\* filter stands at two and that of the store-state filter at zero.
C25_Witness ==
    /\ flLast.op = "filter-target" /\ ~flLast.ok
    /\ flLast.filters = <<NewStateFilter, StoreStateFilter(TRUE, FALSE)>>
    /\ flStore[flLast.store].state = "Offline"
    /\ flCounter[<<"filter-target", flLast.store, "state-filter">>] = 2
    /\ flCounter[<<"filter-target", flLast.store, "store-state-filter">>] = 0

stateFilterAsked(op) == flLast.op = op /\ flLast.filters = <<NewStateFilter>>

\* C27 as stated: the state filter rejects a Tombstone store as source, and
\* a store it accepts as target is Up, is not Offline and has sent its last
\* heartbeat within MaxStoreDownTime.
C27_TargetUpAndAlive ==
    /\ stateFilterAsked("filter-source")
          => (flStore[flLast.store].state = "Tombstone" => ~flLast.ok)
    /\ (stateFilterAsked("filter-target") /\ flLast.ok)
          => /\ flStore[flLast.store].state = "Up"
             /\ flStore[flLast.store].state # "Offline"
             /\ ~flStore[flLast.store].down

\* C27, amended: the state filter accepts a store as source exactly when it
\* is not Tombstone, and as target exactly when its state is Up, whatever the
\* age of its last heartbeat.
C27_TargetUp ==
    /\ stateFilterAsked("filter-source")
          => (flLast.ok <=> flStore[flLast.store].state # "Tombstone")
    /\ stateFilterAsked("filter-target")
          => (flLast.ok <=> flStore[flLast.store].state = "Up")
    /\ \A s \in FlStores :
          s \in SelectStores(FALSE, flStore, FlStores, <<NewStateFilter>>)
             <=> flStore[s].state = "Up"

\* The state filter accepted as target an Up store whose last heartbeat is
\* older than MaxStoreDownTime.
C27_Witness ==
    /\ stateFilterAsked("filter-target") /\ flLast.ok
    /\ flStore[flLast.store].state = "Up" /\ flStore[flLast.store].down

\* The last call asked a special-use filter alone.
specialUseAsked ==
    /\ flLast.op \in {"filter-source", "filter-target"}
    /\ Len(flLast.filters) = 1
    /\ flLast.filters[1].type = "special-use-filter"

\* The store of the last call carries a special use that the filter of the
\* call was not told to allow.
markedAndNotAllowed ==
    /\ flStore[flLast.store].specialUse \in {"hotRegion", "reserved"}
    /\ flStore[flLast.store].specialUse \notin flLast.filters[1].allowUses

\* C28 as stated: the special-use filter rejects, as source and as target,
\* every store marked hotRegion or reserved unless the mark is among the
\* allowed uses, and accepts every other store.
C28_RejectsMarkedStores ==
    specialUseAsked => (flLast.ok <=> ~markedAndNotAllowed)

\* C28, amended: as target the special-use filter rejects exactly the stores
\* with a mark it was not told to allow; as source it rejects exactly those
\* of them that are not low on space.
C28_RejectsMarkedUnlessLowSpace ==
    specialUseAsked =>
        IF flLast.op = "filter-target"
        THEN flLast.ok <=> ~markedAndNotAllowed
        ELSE flLast.ok <=> (flStore[flLast.store].lowSpace \/ ~markedAndNotAllowed)

\* The default filter accepted as source a store marked hotRegion that is
\* low on space, in a second call, no call having counted a rejection.
C28_Witness ==
    /\ specialUseAsked /\ flLast.op = "filter-source" /\ flLast.ok
    /\ flLast.filters[1].allowUses = {}
    /\ flStore[flLast.store].specialUse = "hotRegion"
    /\ flStore[flLast.store].lowSpace
    /\ flCalls = MaxFilterCalls
    /\ \A k \in FlKeys : flCounter[k] = 0

\* The last call asked a distinct-score filter alone.
distinctAsked ==
    /\ flLast.op \in {"filter-source", "filter-target"}
    /\ Len(flLast.filters) = 1
    /\ flLast.filters[1].type = "distinct-filter"

\* The number of pairs of stores of S that lie in different zones.
isolation(S) ==
    Cardinality({p \in S \X S : p[1] < p[2] /\ zoneOf(p[1]) # zoneOf(p[2])})

\* C29: the distinct-score filter accepts every store as source, and accepts
\* a store as target exactly when its distinct score against the stores of
\* the region without the source is at least the score of the source against
\* them; so a region that swaps the source for an accepted store outside it
\* has no fewer pairs of stores in different zones than before.
C29_IsolationKept ==
    distinctAsked =>
        LET f == flLast.filters[1]
            others == f.stores \ {f.source}
            s == flLast.store
        IN  IF flLast.op = "filter-source" THEN flLast.ok
            ELSE /\ flLast.ok
                       <=> DistinctScore(others, s) >= DistinctScore(others, f.source)
                 /\ (flLast.ok /\ s \notin f.stores)
                       => isolation(others \cup {s}) >= isolation(f.stores)
                 /\ (~flLast.ok /\ s \notin f.stores)
                       => isolation(others \cup {s}) < isolation(f.stores)

\* For a region on stores 1 and 3, in two zones, and the source 1 the filter
\* turned down store 4, which shares the zone of store 3, in a second call.
C29_Witness ==
    /\ distinctAsked /\ flLast.op = "filter-target" /\ ~flLast.ok
    /\ flLast.store \notin flLast.filters[1].stores
    /\ flCounter[<<"filter-target", flLast.store, "distinct-filter">>] >= 1
    /\ flCalls = MaxFilterCalls

(***************************************************************************)
(*                   Claims: RegionsInfo, subtree comparison               *)
(***************************************************************************)

\* The roles store s has in a region: leader, voter, learner, pending peer.
rolesOf(region, s) ==
    <<region.leader = s, s \in region.voters, s \in region.learners,
      s \in region.pendingPeers>>

\* C30: when SetRegion finds an origin for the region's id, the origin is
\* taken out of the subtrees (shouldRemoveFromSubTree is true) exactly when
\* some store has different roles in the two regions: the leader store, the
\* voters' stores, the stores of the learners or the stores of the pending
\* peers differ; regions with the same stores in the same roles are left.
C30_RemovedIffRolesDiffer ==
    [][(regLast'.op = "set" /\ regLast'.known) =>
          LET origin == regions[regCall']
              region == regions'[regCall']
          IN  /\ origin # NoRegion
              /\ regLast'.moved
                    <=> \E s \in Stores : rolesOf(region, s) # rolesOf(origin, s)
              /\ regLast'.moved
                    <=> \/ origin.leader # region.leader
                        \/ origin.pendingPeers # region.pendingPeers
                        \/ origin.learners # region.learners
                        \/ origin.voters # region.voters
      ]_vars

\* A region with a learner and a pending peer was set again with the same
\* stores in the same roles and stayed in the subtrees.
C30_Witness ==
    /\ regLast.op = "set" /\ regLast.known /\ ~regLast.moved
    /\ regions[regCall].learners # {}
    /\ regions[regCall].pendingPeers # {}
    /\ regCall \in learners[3] /\ regCall \in pendingPeers[1]

====
